---- MODULE Spec2Model ----
(***************************************************************************)
(* Rescue.net AI health monitoring: the HealthMonitor fusion engine        *)
(* (health_monitor.py), the three scorers' result construction             *)
(* (anomaly_detector.py, emergency_classifier.py, risk_predictor.py) and   *)
(* the Flask service's per-patient store (ai_service.py).                  *)
(*                                                                         *)
(* Numbers: probabilities, confidences and risk scores are in hundredths   *)
(* (0.7 is 70, 0.95 is 95); temperatures are in tenths of a degree         *)
(* (39.2 is 392); the other vitals are integers as in the source.          *)
(* Python dicts are functions whose DOMAIN is the set of keys present.     *)
(***************************************************************************)
EXTENDS Integers, Sequences, FiniteSets, TLC

VARIABLES
    health_history,      \* HealthMonitor.health_history: device -> list of entries
    recent_health_data,  \* ai_service.recent_health_data: patient -> list of entries
    emergency_alerts,    \* ai_service.emergency_alerts
    enable_ai_models,    \* HealthMonitor.enable_ai_models
    models,              \* per scorer: "none" (attribute is None), "untrained", "trained"
    now,                 \* the clock read by datetime.now()
    appended,            \* history variable: every entry ever appended to health_history
    received,            \* history variable: every entry ever appended to recent_health_data
    call,                \* the inputs of the last operation
    result,              \* what the last analyze_health_data call returned (or raised)
    response,            \* HTTP status of the last request (0: none)
    skipped,             \* history variable: scorers some analysis found unavailable
    threads              \* request threads in flight: position and locals of each

vars == <<health_history, recent_health_data, emergency_alerts, enable_ai_models,
          models, now, appended, received, call, result, response, skipped, threads>>

(***************************************************************************)
(* Bounds of the model.                                                    *)
(***************************************************************************)
MaxCalls == 2          \* operations per behaviour of Spec

Devices == {"dev-1", "dev-2"}

(***************************************************************************)
(* Program constants.                                                      *)
(***************************************************************************)
HistoryCap == 100            \* readings kept per device
DefaultConfidence == 80      \* 0.8
ThresholdConfidence == 95    \* 0.95
ClassificationMinConfidence == 70   \* 0.7
RiskMinScore == 60           \* 0.6
DefaultSignalConfidence == 70      \* 0.7
MaxRecommendations == 10

(***************************************************************************)
(* Strings.  TLC strings support Len, SubSeq and \o.                       *)
(***************************************************************************)
RECURSIVE Replace(_, _, _)
\* str.replace(old, new) for a one-character old
Replace(s, old, new) ==
    IF Len(s) = 0 THEN ""
    ELSE (IF SubSeq(s, 1, 1) = old THEN new ELSE SubSeq(s, 1, 1))
         \o Replace(SubSeq(s, 2, Len(s)), old, new)

\* Python's `sub in s` for strings
Contains(s, sub) ==
    \E i \in 1..(Len(s) - Len(sub) + 1) : SubSeq(s, i, i + Len(sub) - 1) = sub

Digit(d) == SubSeq("0123456789", d + 1, d + 1)

RECURSIVE Str(_)
\* str() of a non-negative int
Str(n) == IF n < 10 THEN Digit(n) ELSE Str(n \div 10) \o Digit(n % 10)

\* str() of a float held in tenths
StrTenths(t) == Str(t \div 10) \o "." \o Digit(t % 10)

(***************************************************************************)
(* Readings.  A value is numeric or not (a JSON string, null, ...).        *)
(***************************************************************************)
Num(n) == [num |-> TRUE, v |-> n]
NonNumeric == [num |-> FALSE, v |-> 0]

\* health_data as passed by a caller: a mapping, or some other JSON value
Dict(items) == [is_dict |-> TRUE, items |-> items]
NotADict == [is_dict |-> FALSE, items |-> <<>>]

VitalOrder == <<"heart_rate", "temperature", "systolic_bp", "diastolic_bp",
                "spo2", "respiratory_rate">>

critical_thresholds ==
    [heart_rate       |-> [min |-> 40,  max |-> 150],
     temperature      |-> [min |-> 350, max |-> 390],
     systolic_bp      |-> [min |-> 80,  max |-> 180],
     diastolic_bp     |-> [min |-> 50,  max |-> 110],
     spo2             |-> [min |-> 90,  max |-> 100],
     respiratory_rate |-> [min |-> 8,   max |-> 30]]

\* f"{value}" of a vital
FormatValue(vital, value) ==
    IF vital = "temperature" THEN StrTenths(value) ELSE Str(value)

(***************************************************************************)
(* Generic helpers for Python lists and dicts.                             *)
(***************************************************************************)
\* dict.get(key, default)
Get(d, key, default) == IF key \in DOMAIN d THEN d[key] ELSE default

\* Python None and the empty dict are both falsy
None == <<>>
Truthy(d) == DOMAIN d # {}

\* s[-n:] for n > 0
LastN(s, n) == IF Len(s) <= n THEN s ELSE SubSeq(s, Len(s) - n + 1, Len(s))

\* s[:n]
FirstN(s, n) == IF Len(s) <= n THEN s ELSE SubSeq(s, 1, n)

\* `x in s` for a list
InList(x, s) == \E i \in 1..Len(s) : s[i] = x

\* What an operation that may raise yields: a value, or an exception's text
Return(v) == [raised |-> FALSE, value |-> v, error |-> ""]
Raise(msg) == [raised |-> TRUE, value |-> None, error |-> msg]

(***************************************************************************)
(* HealthMonitor._store_health_data                                        *)
(***************************************************************************)
\* the isoformat text of clock value t
Stamp(t) == [num |-> FALSE, v |-> t]

\* {**health_data, 'timestamp': datetime.now().isoformat()}
TimestampedData(items, t) == ("timestamp" :> Stamp(t)) @@ items

\* StoreHealthData with the slice [:100]: on overflow the newest entry is dropped
StoreHealthDataKeepsOldest(history, device_id, health_data, t) ==
    LET h1 == IF device_id \notin DOMAIN history
              THEN history @@ (device_id :> <<>>)
              ELSE history
    IN  IF ~health_data.is_dict
        THEN [raised |-> TRUE, error |-> "argument is not a mapping", history |-> h1]
        ELSE LET grown == Append(h1[device_id], TimestampedData(health_data.items, t))
             IN  [raised |-> FALSE, error |-> "",
                  history |-> [h1 EXCEPT ![device_id] = FirstN(grown, HistoryCap)]]

\* The store after the call, and whether the call raised (health_data that is
\* no mapping makes ** raise after the device's list has been created).
StoreHealthData(history, device_id, health_data, t) ==
    LET h1 == IF device_id \notin DOMAIN history
              THEN history @@ (device_id :> <<>>)
              ELSE history
    IN  IF ~health_data.is_dict
        THEN [raised |-> TRUE, error |-> "argument is not a mapping", history |-> h1]
        ELSE LET grown == Append(h1[device_id], TimestampedData(health_data.items, t))
                 kept == IF Len(grown) > HistoryCap THEN LastN(grown, HistoryCap) ELSE grown
             IN  [raised |-> FALSE, error |-> "",
                  history |-> [h1 EXCEPT ![device_id] = kept]]

(***************************************************************************)
(* HealthMonitor._check_immediate_alerts                                   *)
(***************************************************************************)
LowAlert(vital, value) ==
    [type |-> "critical_low", vital_sign |-> vital, current_value |-> value,
     threshold |-> critical_thresholds[vital].min, severity |-> "critical",
     message |-> vital \o " critically low: " \o FormatValue(vital, value)]

HighAlert(vital, value) ==
    [type |-> "critical_high", vital_sign |-> vital, current_value |-> value,
     threshold |-> critical_thresholds[vital].max, severity |-> "critical",
     message |-> vital \o " critically high: " \o FormatValue(vital, value)]

RECURSIVE AlertsFrom(_, _)
\* the loop over critical_thresholds.items(), from the i-th vital on
AlertsFrom(items, i) ==
    IF i > Len(VitalOrder) THEN <<>>
    ELSE LET vital == VitalOrder[i]
             rest == AlertsFrom(items, i + 1)
         IN  IF vital \notin DOMAIN items THEN rest
             ELSE LET value == items[vital].v
                  IN  IF value < critical_thresholds[vital].min
                      THEN <<LowAlert(vital, value)>> \o rest
                      ELSE IF value > critical_thresholds[vital].max
                      THEN <<HighAlert(vital, value)>> \o rest
                      ELSE rest
\* CheckImmediateAlerts without the test `if vital in health_data`
CheckImmediateAlertsNoSkip(items) ==
    IF \E i \in 1..Len(VitalOrder) : VitalOrder[i] \notin DOMAIN items
    THEN Raise("KeyError")
    ELSE Return(AlertsFrom(items, 1))

\* Comparing a non-numeric value with a threshold raises TypeError.
CheckImmediateAlerts(items) ==
    IF \E i \in 1..Len(VitalOrder) :
          VitalOrder[i] \in DOMAIN items /\ ~items[VitalOrder[i]].num
    THEN Raise("'<' not supported between instances of 'str' and 'int'")
    ELSE Return(AlertsFrom(items, 1))

(***************************************************************************)
(* The scorers.  What the fitted estimators compute (the isolation          *)
(* forest's verdict and score, the ensemble's class and probability, the   *)
(* regressor's score) is the environment's choice, an "outcome"; the       *)
(* result dict built around it is the code's.                              *)
(***************************************************************************)
\* outcome of a scorer that was not called
NotCalled == [called |-> FALSE]

\* --- HealthAnomalyDetector ---------------------------------------------
AnomalyOutcome(raises, is_anomaly, prob, confidence) ==
    [called |-> TRUE, raises |-> raises, is_anomaly |-> is_anomaly,
     prob |-> prob, confidence |-> confidence]

\* HealthAnomalyDetector.assess_risk_level
assess_risk_level(items, anomaly_prob) ==
    LET hr == Get(items, "heart_rate", Num(70)).v
        temp == Get(items, "temperature", Num(368)).v
        spo2 == Get(items, "spo2", Num(98)).v
    IN  IF hr > 150 \/ hr < 40 \/ temp > 390 \/ spo2 < 90 THEN "critical"
        ELSE IF anomaly_prob > 80 THEN "high"
        ELSE IF anomaly_prob > 60 THEN "medium"
        ELSE IF anomaly_prob > 30 THEN "low"
        ELSE "normal"

\* HealthAnomalyDetector.generate_recommendations
generate_recommendations(risk_level) ==
    CASE risk_level = "critical" ->
            <<"EMERGENCY: Seek immediate medical attention",
              "Call emergency services (108) immediately",
              "Monitor vital signs continuously">>
      [] risk_level = "high" ->
            <<"Contact healthcare provider immediately",
              "Monitor symptoms closely",
              "Avoid strenuous activities">>
      [] risk_level = "medium" ->
            <<"Consider consulting a healthcare provider",
              "Monitor vital signs regularly",
              "Stay hydrated and rest">>
      [] risk_level = "low" ->
            <<"Continue normal monitoring",
              "Maintain healthy lifestyle",
              "Stay hydrated">>
      [] OTHER ->
            <<"Vital signs normal",
              "Continue regular health monitoring",
              "Maintain current health routine">>

\* HealthAnomalyDetector.predict_anomaly
predict_anomaly(items, out) ==
    IF out.raises THEN Raise("anomaly detector failed")
    ELSE LET risk_level == assess_risk_level(items, out.prob)
         IN  Return([is_anomaly |-> out.is_anomaly,
                     anomaly_probability |-> out.prob,
                     confidence |-> out.confidence,
                     risk_level |-> risk_level,
                     risk_score |-> out.prob,
                     recommendations |-> generate_recommendations(risk_level)])

\* --- EmergencyClassifier -----------------------------------------------
emergency_types ==
    <<"normal", "cardiac_arrest", "stroke", "hyperthermia", "hypothermia",
      "severe_hypotension", "severe_hypertension", "respiratory_distress",
      "hypoglycemia", "seizure", "fall_detected", "medication_reaction">>

ClassifierOutcome(raises, type, confidence) ==
    [called |-> TRUE, raises |-> raises, type |-> type, confidence |-> confidence]

\* EmergencyClassifier._determine_severity
determine_severity(emergency_type, confidence) ==
    LET critical_emergencies ==
            {"cardiac_arrest", "stroke", "severe_hypotension", "respiratory_distress"}
        high_emergencies ==
            {"severe_hypertension", "hyperthermia", "hypothermia", "seizure"}
        medium_emergencies == {"fall_detected", "medication_reaction"}
    IN  IF emergency_type \in critical_emergencies /\ confidence > 70 THEN "critical"
        ELSE IF emergency_type \in critical_emergencies
                \/ (emergency_type \in high_emergencies /\ confidence > 80) THEN "high"
        ELSE IF emergency_type \in high_emergencies
                \/ (emergency_type \in medium_emergencies /\ confidence > 70) THEN "medium"
        ELSE IF emergency_type # "normal" THEN "low"
        ELSE "normal"

\* EmergencyClassifier._get_emergency_actions
get_emergency_actions(emergency_type) ==
    CASE emergency_type = "normal" ->
            <<"Continue normal monitoring", "Maintain healthy lifestyle">>
      [] emergency_type = "cardiac_arrest" ->
            <<"CALL 108 IMMEDIATELY", "Begin CPR if trained",
              "Use AED if available", "Notify nearest hospital">>
      [] emergency_type = "stroke" ->
            <<"CALL 108 IMMEDIATELY", "Note time of symptom onset",
              "Keep patient calm and still", "Check for FAST symptoms">>
      [] emergency_type = "hyperthermia" ->
            <<"Move to cool environment", "Remove excess clothing",
              "Apply cool water to skin", "Seek immediate medical attention">>
      [] emergency_type = "hypothermia" ->
            <<"Move to warm environment", "Remove wet clothing",
              "Wrap in warm blankets", "Seek immediate medical attention">>
      [] emergency_type = "severe_hypotension" ->
            <<"Elevate legs", "Increase fluid intake if conscious",
              "Call emergency services", "Monitor vital signs">>
      [] emergency_type = "severe_hypertension" ->
            <<"Keep patient calm", "Avoid sudden movements",
              "Call emergency services", "Monitor for stroke symptoms">>
      [] emergency_type = "respiratory_distress" ->
            <<"Help patient sit upright", "Ensure airway is clear",
              "Call emergency services", "Use rescue inhaler if available">>
      [] emergency_type = "hypoglycemia" ->
            <<"Give glucose or sugar if conscious", "Call emergency services if severe",
              "Monitor blood sugar", "Contact healthcare provider">>
      [] emergency_type = "seizure" ->
            <<"Keep patient safe from injury", "Time the seizure",
              "Call 108 if seizure lasts >5 minutes", "Stay with patient until recovery">>
      [] emergency_type = "fall_detected" ->
            <<"Check for injuries", "Do not move if spinal injury suspected",
              "Call emergency services if needed", "Monitor vital signs">>
      [] emergency_type = "medication_reaction" ->
            <<"Stop suspected medication", "Call poison control or emergency services",
              "Note medication and time taken", "Monitor symptoms">>
      [] OTHER -> <<"Seek medical attention">>

\* EmergencyClassifier.predict_emergency
predict_emergency(items, out) ==
    IF out.raises THEN Raise("emergency classifier failed")
    ELSE Return([predicted_emergency |-> out.type,
                 confidence |-> out.confidence,
                 severity |-> determine_severity(out.type, out.confidence),
                 recommended_actions |-> get_emergency_actions(out.type),
                 requires_immediate_attention |->
                     (out.type # "normal" /\ out.confidence > 60)])
\* --- RiskPredictor -----------------------------------------------------
\* RiskPredictor.prediction_windows, in hours
prediction_windows == <<1, 6, 12, 24>>

\* A windowed score is held in 1/240 of a hundredth, the unit in which
\* base * (1 + (window / 24) * 0.1) is exact for a base in hundredths.
WindowUnit == 240
RiskCeiling == 95            \* 0.95

\* TimeFactor with the sign turned: 1 - (window / 24) * 0.1
TimeFactorShrinking(window) == WindowUnit - window

\* time_factor = 1 + (window / 24) * 0.1, times WindowUnit
TimeFactor(window) == WindowUnit + window
\* WindowedRisk without the min(0.95, ...)
WindowedRiskUncapped(base_risk, window) == base_risk * TimeFactor(window)

\* min(0.95, base_risk * time_factor)
WindowedRisk(base_risk, window) ==
    LET grown == base_risk * TimeFactor(window)
    IN  IF RiskCeiling * WindowUnit < grown THEN RiskCeiling * WindowUnit ELSE grown

\* _determine_risk_level of a windowed score
WindowedRiskLevel(windowed_risk) ==
    IF windowed_risk >= 80 * WindowUnit THEN "critical"
    ELSE IF windowed_risk >= 60 * WindowUnit THEN "high"
    ELSE IF windowed_risk >= 40 * WindowUnit THEN "medium"
    ELSE IF windowed_risk >= 20 * WindowUnit THEN "low"
    ELSE "minimal"

\* f'{window}h'
WindowKey(window) == Str(window) \o "h"

\* RiskPredictor._calculate_time_predictions ('probability' is risk_score * 100)
calculate_time_predictions(base_risk) ==
    [key \in {WindowKey(prediction_windows[i]) : i \in 1..Len(prediction_windows)} |->
        LET window == prediction_windows[
                          CHOOSE i \in 1..Len(prediction_windows) :
                              WindowKey(prediction_windows[i]) = key]
        IN  [risk_score |-> WindowedRisk(base_risk, window),
             risk_level |-> WindowedRiskLevel(WindowedRisk(base_risk, window))]]

RiskOutcome(raises, score, confidence) ==
    [called |-> TRUE, raises |-> raises, score |-> score, confidence |-> confidence]

\* RiskPredictor._determine_risk_level
determine_risk_level(risk_score) ==
    IF risk_score >= 80 THEN "critical"
    ELSE IF risk_score >= 60 THEN "high"
    ELSE IF risk_score >= 40 THEN "medium"
    ELSE IF risk_score >= 20 THEN "low"
    ELSE "minimal"

\* RiskPredictor._generate_risk_recommendations
generate_risk_recommendations(risk_score) ==
    IF risk_score >= 80 THEN
        <<"URGENT: Contact healthcare provider immediately",
          "Monitor vital signs every 15 minutes",
          "Prepare for possible emergency",
          "Ensure emergency contacts are notified",
          "Have emergency medications ready">>
    ELSE IF risk_score >= 60 THEN
        <<"Contact healthcare provider today",
          "Monitor vital signs every hour",
          "Avoid strenuous activities",
          "Stay hydrated and rest",
          "Have someone stay with you">>
    ELSE IF risk_score >= 40 THEN
        <<"Schedule healthcare appointment within 24-48 hours",
          "Monitor vital signs every 2-3 hours",
          "Take prescribed medications as directed",
          "Reduce stress and get adequate rest",
          "Inform family members of your status">>
    ELSE IF risk_score >= 20 THEN
        <<"Continue regular health monitoring",
          "Follow medication schedule",
          "Maintain healthy lifestyle",
          "Monitor for symptom changes",
          "Stay in contact with healthcare provider">>
    ELSE
        <<"Continue normal activities",
          "Maintain regular health monitoring",
          "Follow preventive care guidelines",
          "Keep emergency contacts updated">>

\* RiskPredictor.predict_risk (the regressor's output is clamped to [0, 1])
predict_risk(items, patient_history, out) ==
    IF out.raises THEN Raise("risk predictor failed")
    ELSE LET risk_score == IF out.score < 0 THEN 0
                           ELSE IF out.score > 100 THEN 100 ELSE out.score
         IN  Return([overall_risk_score |-> risk_score,
                     risk_level |-> determine_risk_level(risk_score),
                     confidence |-> out.confidence,
                     time_predictions |-> calculate_time_predictions(risk_score),
                     recommendations |-> generate_risk_recommendations(risk_score)])

(***************************************************************************)
(* HealthMonitor._determine_overall_status                                 *)
(***************************************************************************)
\* Python None for primary_concern (no rule yields an empty text)
NoConcern == ""

\* f"{confidence:.2f}" of a value held in hundredths
Format2f(c) == Str(c \div 100) \o "." \o Digit((c \div 10) % 10) \o Digit(c % 10)

NormalStatus ==
    [level |-> "normal", severity |-> "normal", confidence |-> DefaultConfidence,
     primary_concern |-> NoConcern,
     summary |-> "All vital signs within normal range"]

\* [a for a in immediate_alerts if a['severity'] == 'critical']
RECURSIVE CriticalAlerts(_)
CriticalAlerts(alerts) ==
    IF Len(alerts) = 0 THEN <<>>
    ELSE (IF Head(alerts).severity = "critical" THEN <<Head(alerts)>> ELSE <<>>)
         \o CriticalAlerts(Tail(alerts))

\* rule 1: immediate alerts
ThresholdRuleFires(immediate_alerts) ==
    Len(immediate_alerts) > 0 /\ Len(CriticalAlerts(immediate_alerts)) > 0
\* ThresholdStatus with the concern taken from the last critical alert
ThresholdStatusLastAlert(immediate_alerts) ==
    [level |-> "emergency", severity |-> "critical", confidence |-> ThresholdConfidence,
     primary_concern |->
         CriticalAlerts(immediate_alerts)[Len(CriticalAlerts(immediate_alerts))].message,
     summary |-> "Critical vital signs detected - immediate medical attention required"]

ThresholdStatus(immediate_alerts) ==
    [level |-> "emergency", severity |-> "critical", confidence |-> ThresholdConfidence,
     primary_concern |-> CriticalAlerts(immediate_alerts)[1].message,
     summary |-> "Critical vital signs detected - immediate medical attention required"]

\* ClassificationRuleFires with `confidence >= 0.7`
ClassificationRuleFiresAtBoundary(emergency_result) ==
    /\ Truthy(emergency_result)
    /\ Get(emergency_result, "predicted_emergency", "normal") # "normal"
    /\ Get(emergency_result, "confidence", 0) >= ClassificationMinConfidence

\* ConcernText without the replace of '_'
ConcernTextRaw(emergency_type) == "Potential " \o emergency_type \o " detected"

\* f"Potential {emergency_type.replace('_', ' ')} detected"
ConcernText(emergency_type) ==
    "Potential " \o Replace(emergency_type, "_", " ") \o " detected"

\* rule 2: emergency classification
ClassificationRuleFires(emergency_result) ==
    /\ Truthy(emergency_result)
    /\ Get(emergency_result, "predicted_emergency", "normal") # "normal"
    /\ Get(emergency_result, "confidence", 0) > ClassificationMinConfidence

ClassificationStatus(emergency_result) ==
    LET emergency_type == Get(emergency_result, "predicted_emergency", "normal")
        confidence == Get(emergency_result, "confidence", 0)
        emergency_severity == Get(emergency_result, "severity", "medium")
    IN  [level |-> IF emergency_severity = "critical" THEN "emergency" ELSE "warning",
         severity |-> IF emergency_severity \in {"critical", "high", "medium", "low"}
                      THEN emergency_severity ELSE "medium",
         confidence |-> confidence,
         primary_concern |-> ConcernText(emergency_type),
         summary |-> "Emergency classification: " \o emergency_type
                     \o " (confidence: " \o Format2f(confidence) \o ")"]

\* rule 3: anomaly detection
AnomalyRuleFires(anomaly_result) ==
    /\ Truthy(anomaly_result)
    /\ Get(anomaly_result, "is_anomaly", FALSE)
    /\ Get(anomaly_result, "risk_level", "normal") \in {"high", "critical"}

AnomalyStatus(anomaly_result) ==
    LET risk_level == Get(anomaly_result, "risk_level", "normal")
    IN  [level |-> "warning", severity |-> risk_level,
         confidence |-> Get(anomaly_result, "confidence", DefaultSignalConfidence),
         primary_concern |-> "Abnormal vital sign patterns detected",
         summary |-> "Health anomaly detected - risk level: " \o risk_level]

\* RiskRuleFires with `risk_score >= 0.6`
RiskRuleFiresAtBoundary(risk_result) ==
    /\ Truthy(risk_result)
    /\ Get(risk_result, "overall_risk_score", 0) >= RiskMinScore

\* rule 4: risk prediction
RiskRuleFires(risk_result) ==
    /\ Truthy(risk_result)
    /\ Get(risk_result, "overall_risk_score", 0) > RiskMinScore

RiskStatus(risk_result) ==
    LET risk_level == Get(risk_result, "risk_level", "minimal")
    IN  [level |-> "caution", severity |-> risk_level,
         confidence |-> Get(risk_result, "confidence", DefaultSignalConfidence),
         primary_concern |-> "Elevated risk for future health events",
         summary |-> "Increased health risk detected - level: " \o risk_level]

\* DetermineOverallStatus with the classification check ahead of the alerts
DetermineOverallStatusClassifierFirst(immediate_alerts, anomaly_result, emergency_result, risk_result) ==
    IF ClassificationRuleFires(emergency_result)
    THEN ClassificationStatus(emergency_result)
    ELSE IF ThresholdRuleFires(immediate_alerts) THEN ThresholdStatus(immediate_alerts)
    ELSE IF AnomalyRuleFires(anomaly_result) THEN AnomalyStatus(anomaly_result)
    ELSE IF RiskRuleFires(risk_result) THEN RiskStatus(risk_result)
    ELSE NormalStatus

\* DetermineOverallStatus with the risk check ahead of the anomaly check
DetermineOverallStatusRiskFirst(immediate_alerts, anomaly_result, emergency_result, risk_result) ==
    IF ThresholdRuleFires(immediate_alerts) THEN ThresholdStatus(immediate_alerts)
    ELSE IF ClassificationRuleFires(emergency_result)
         THEN ClassificationStatus(emergency_result)
    ELSE IF RiskRuleFires(risk_result) THEN RiskStatus(risk_result)
    ELSE IF AnomalyRuleFires(anomaly_result) THEN AnomalyStatus(anomaly_result)
    ELSE NormalStatus

DetermineOverallStatus(immediate_alerts, anomaly_result, emergency_result, risk_result) ==
    IF ThresholdRuleFires(immediate_alerts) THEN ThresholdStatus(immediate_alerts)
    ELSE IF ClassificationRuleFires(emergency_result)
         THEN ClassificationStatus(emergency_result)
    ELSE IF AnomalyRuleFires(anomaly_result) THEN AnomalyStatus(anomaly_result)
    ELSE IF RiskRuleFires(risk_result) THEN RiskStatus(risk_result)
    ELSE NormalStatus

(***************************************************************************)
(* HealthMonitor._combine_analysis_results                                 *)
(***************************************************************************)
\* AllRecommendations with the risk advice ahead of the classification actions
AllRecommendationsRiskFirst(immediate_alerts, anomaly_result, emergency_result, risk_result) ==
    (IF Len(immediate_alerts) > 0
        THEN <<"IMMEDIATE MEDICAL ATTENTION REQUIRED">> ELSE <<>>)
    \o (IF Truthy(anomaly_result) /\ "recommendations" \in DOMAIN anomaly_result
        THEN anomaly_result.recommendations ELSE <<>>)
    \o (IF Truthy(risk_result) /\ "recommendations" \in DOMAIN risk_result
        THEN risk_result.recommendations ELSE <<>>)
    \o (IF Truthy(emergency_result) /\ "recommended_actions" \in DOMAIN emergency_result
        THEN emergency_result.recommended_actions ELSE <<>>)

\* all_recommendations before deduplication
AllRecommendations(immediate_alerts, anomaly_result, emergency_result, risk_result) ==
    (IF Len(immediate_alerts) > 0
        THEN <<"IMMEDIATE MEDICAL ATTENTION REQUIRED">> ELSE <<>>)
    \o (IF Truthy(anomaly_result) /\ "recommendations" \in DOMAIN anomaly_result
        THEN anomaly_result.recommendations ELSE <<>>)
    \o (IF Truthy(emergency_result) /\ "recommended_actions" \in DOMAIN emergency_result
        THEN emergency_result.recommended_actions ELSE <<>>)
    \o (IF Truthy(risk_result) /\ "recommendations" \in DOMAIN risk_result
        THEN risk_result.recommendations ELSE <<>>)

RECURSIVE UniqueFrom(_, _)
\* the loop `if rec not in unique_recommendations: append`, with `done` built so far
UniqueFrom(recs, done) ==
    IF Len(recs) = 0 THEN done
    ELSE UniqueFrom(Tail(recs),
                    IF InList(Head(recs), done) THEN done ELSE Append(done, Head(recs)))

\* UniqueRecommendations without the membership test
KeepsDuplicates(recs) == recs

UniqueRecommendations(recs) == UniqueFrom(recs, <<>>)

\* unique_recommendations[:10]
TopRecommendations(recs) == FirstN(UniqueRecommendations(recs), MaxRecommendations)
\* RequiresEmergencyResponse for critical severity only
RequiresEmergencyResponseCriticalOnly(overall_status) ==
    overall_status.severity = "critical"

RequiresEmergencyResponse(overall_status) ==
    overall_status.severity \in {"critical", "high"}

CombineAnalysisResults(items, immediate_alerts, anomaly_result, emergency_result, risk_result) ==
    LET overall_status ==
            DetermineOverallStatus(immediate_alerts, anomaly_result, emergency_result,
                                   risk_result)
        analysis ==
            [current_vitals |-> items,
             overall_status |-> overall_status,
             immediate_alerts |-> immediate_alerts,
             recommendations |->
                 TopRecommendations(AllRecommendations(immediate_alerts, anomaly_result,
                                                       emergency_result, risk_result)),
             requires_emergency_response |-> RequiresEmergencyResponse(overall_status),
             confidence_score |-> overall_status.confidence]
        anomaly_detection ==
            IF Truthy(anomaly_result)
            THEN "anomaly_detection" :>
                    [is_anomaly |-> Get(anomaly_result, "is_anomaly", FALSE),
                     risk_score |-> Get(anomaly_result, "risk_score", 0),
                     risk_level |-> Get(anomaly_result, "risk_level", "unknown")]
            ELSE <<>>
        emergency_classification ==
            IF Truthy(emergency_result)
            THEN "emergency_classification" :>
                    [predicted_emergency |->
                         Get(emergency_result, "predicted_emergency", "unknown"),
                     confidence |-> Get(emergency_result, "confidence", 0),
                     severity |-> Get(emergency_result, "severity", "unknown")]
            ELSE <<>>
        risk_prediction ==
            IF Truthy(risk_result)
            THEN "risk_prediction" :>
                    [overall_risk_score |-> Get(risk_result, "overall_risk_score", 0),
                     risk_level |-> Get(risk_result, "risk_level", "unknown"),
                     time_predictions |-> Get(risk_result, "time_predictions", <<>>)]
            ELSE <<>>
    IN  analysis @@ anomaly_detection @@ emergency_classification @@ risk_prediction

(***************************************************************************)
(* HealthMonitor.analyze_health_data                                       *)
(***************************************************************************)
Scorers == {"anomaly", "classifier", "risk"}

\* ScorerAvailable without the is_trained test
ScorerAvailableUntrained(enable, mods, scorer) == enable /\ mods[scorer] # "none"

\* ScorerAvailable that remembers a scorer it once found unavailable
ScorerAvailableCached(enable, mods, scorer) ==
    enable /\ mods[scorer] = "trained" /\ scorer \notin skipped

\* `self.x and self.x.is_trained`, under `if self.enable_ai_models`
ScorerAvailable(enable, mods, scorer) == enable /\ mods[scorer] = "trained"

\* HealthMonitor._create_error_response
CreateErrorResponse(device_id, error_message, enable, t) ==
    [device_id |-> device_id,
     overall_status |->
         [level |-> "error", severity |-> "unknown", confidence |-> 0,
          primary_concern |-> "Analysis failed",
          summary |-> "Health analysis error: " \o error_message],
     immediate_alerts |-> <<>>,
     recommendations |-> <<"Contact technical support", "Retry health monitoring">>,
     requires_emergency_response |-> FALSE,
     confidence_score |-> 0,
     analysis_timestamp |-> t,
     ai_models_enabled |-> enable,
     error |-> error_message]

\* The statements of the try block after the store, up to the return.  The
\* elapsed processing time the result also carries is not modelled.
AnalysisBody(history, enable, mods, device_id, items, t, a_out, e_out, r_out) ==
    LET alerts == CheckImmediateAlerts(items)
        anomaly == IF ScorerAvailable(enable, mods, "anomaly")
                   THEN predict_anomaly(items, a_out) ELSE Return(None)
        emergency == IF ScorerAvailable(enable, mods, "classifier")
                     THEN predict_emergency(items, e_out) ELSE Return(None)
        risk == IF ScorerAvailable(enable, mods, "risk")
                THEN predict_risk(items, Get(history, device_id, <<>>), r_out)
                ELSE Return(None)
    IN  IF alerts.raised THEN Raise(alerts.error)
        ELSE IF anomaly.raised THEN Raise(anomaly.error)
        ELSE IF emergency.raised THEN Raise(emergency.error)
        ELSE IF risk.raised THEN Raise(risk.error)
        ELSE Return(CombineAnalysisResults(items, alerts.value, anomaly.value,
                                           emergency.value, risk.value)
                    @@ [device_id |-> device_id,
                        analysis_timestamp |-> t,
                        ai_models_enabled |-> enable])

\* HandleAnalysisFailure without the try/except
PropagatesFailure(body, device_id, enable, t) == body

\* try: ... except Exception as e: return self._create_error_response(...)
HandleAnalysisFailure(body, device_id, enable, t) ==
    IF body.raised
    THEN Return(CreateErrorResponse(device_id, body.error, enable, t))
    ELSE body
\* AnalyzeHealthData that puts the store back when the analysis raised
AnalyzeHealthDataRollsBack(history, enable, mods, device_id, health_data, t, a_out, e_out, r_out) ==
    LET stored == StoreHealthData(history, device_id, health_data, t)
        body == IF stored.raised THEN Raise(stored.error)
                ELSE AnalysisBody(stored.history, enable, mods, device_id,
                                  health_data.items, t, a_out, e_out, r_out)
    IN  [history |-> IF body.raised THEN history ELSE stored.history,
         outcome |-> HandleAnalysisFailure(body, device_id, enable, t)]

\* The whole method: the store after it, and what it returned.
AnalyzeHealthData(history, enable, mods, device_id, health_data, t, a_out, e_out, r_out) ==
    LET stored == StoreHealthData(history, device_id, health_data, t)
        body == IF stored.raised THEN Raise(stored.error)
                ELSE AnalysisBody(stored.history, enable, mods, device_id,
                                  health_data.items, t, a_out, e_out, r_out)
    IN  [history |-> stored.history,
         outcome |-> HandleAnalysisFailure(body, device_id, enable, t)]

\* Which scorers a call reaches: each is called only if everything before it
\* in the try block returned.
ReachesScorers(health_data) ==
    health_data.is_dict /\ ~CheckImmediateAlerts(health_data.items).raised

Failed(out) == out.called /\ out.raises

AnomalyCalled(enable, mods, health_data) ==
    ReachesScorers(health_data) /\ ScorerAvailable(enable, mods, "anomaly")

ClassifierCalled(enable, mods, health_data, a_out) ==
    /\ ReachesScorers(health_data) /\ ~Failed(a_out)
    /\ ScorerAvailable(enable, mods, "classifier")

RiskCalled(enable, mods, health_data, a_out, e_out) ==
    /\ ReachesScorers(health_data) /\ ~Failed(a_out) /\ ~Failed(e_out)
    /\ ScorerAvailable(enable, mods, "risk")

(***************************************************************************)
(* ai_service.analyze_health_data: POST /analyze/health-data               *)
(***************************************************************************)
\* {'timestamp': datetime.now().isoformat(), **health_data}
ServiceEntry(items, t) == items @@ ("timestamp" :> Stamp(t))

\* recent_health_data after lines 76-87
StoreRecent(recent, patient_id, health_data, t) ==
    LET r1 == IF patient_id \notin DOMAIN recent
              THEN recent @@ (patient_id :> <<>>)
              ELSE recent
    IN  IF ~health_data.is_dict
        THEN [raised |-> TRUE, recent |-> r1]
        ELSE LET grown == Append(r1[patient_id], ServiceEntry(health_data.items, t))
                 kept == IF Len(grown) > HistoryCap THEN LastN(grown, HistoryCap) ELSE grown
             IN  [raised |-> FALSE, recent |-> [r1 EXCEPT ![patient_id] = kept]]

\* the alert built when analysis.get('emergency_detected', False) holds
EmergencyAlert(patient_id, analysis, items, t) ==
    [patientId |-> patient_id,
     emergencyType |-> Get(analysis, "emergency_type", "unknown"),
     severity |-> Get(analysis, "severity", "medium"),
     timestamp |-> t,
     healthData |-> items,
     aiConfidence |-> Get(analysis, "confidence", 50)]

EmergencyDetected(analysis) == Get(analysis, "emergency_detected", FALSE)

(***************************************************************************)
(* HealthMonitor.predict_health_risks and analyze_health_trends, which     *)
(* read the camelCase keys of the service's readings.                      *)
(***************************************************************************)
\* [d.get(key, default) for d in patient_data[-10:]]
RecentValues(patient_data, key, default) ==
    LET last == LastN(patient_data, 10)
    IN  [i \in 1..Len(last) |-> Get(last[i], key, Num(default))]

\* any(v > bound ...) (above) or any(v < bound ...): "yes", "no", or "raise"
\* when a non-numeric value is compared before a hit ends the scan
AnyBeyond(values, bound, above) ==
    LET stops == {i \in 1..Len(values) :
                    \/ ~values[i].num
                    \/ (above /\ values[i].v > bound)
                    \/ (~above /\ values[i].v < bound)}
    IN  IF stops = {} THEN "no"
        ELSE LET first == CHOOSE i \in stops : \A j \in stops : i <= j
             IN  IF values[first].num THEN "yes" ELSE "raise"

\* HealthMonitor._get_risk_recommendations
GetRiskRecommendations(risk_level, risk_factors) ==
    (IF risk_level = "high"
        THEN <<"Immediate medical attention recommended",
               "Contact emergency services if symptoms worsen">>
     ELSE IF risk_level = "medium"
        THEN <<"Monitor vitals closely", "Consider consulting healthcare provider">>
     ELSE <<>>)
    \o (IF InList("elevated_heart_rate", risk_factors)
        THEN <<"Reduce physical activity and stress">> ELSE <<>>)
    \o (IF InList("fever_pattern", risk_factors)
        THEN <<"Stay hydrated and monitor temperature">> ELSE <<>>)
    \o (IF InList("hypertension_risk", risk_factors)
        THEN <<"Reduce sodium intake and monitor blood pressure">> ELSE <<>>)
    \o (IF InList("respiratory_concern", risk_factors)
        THEN <<"Ensure adequate ventilation and avoid pollutants">> ELSE <<>>)

\* InsufficientForRisk with `len(patient_data) <= 5`
InsufficientForRiskAtFive(patient_data) == Len(patient_data) <= 5

\* `if len(patient_data) < 5`
InsufficientForRisk(patient_data) == Len(patient_data) < 5

\* the try block of predict_health_risks
PredictHealthRisksBody(patient_data) ==
    IF InsufficientForRisk(patient_data)
    THEN Return([overall_risk |-> "insufficient_data", risk_score |-> 0,
                 message |-> "Need at least 5 data points for risk prediction"])
    ELSE LET hr == AnyBeyond(RecentValues(patient_data, "heartRate", 0), 120, TRUE)
             temp == AnyBeyond(RecentValues(patient_data, "temperature", 365), 380, TRUE)
             sys == AnyBeyond(RecentValues(patient_data, "bloodPressureSystolic", 120),
                              160, TRUE)
             spo2 == AnyBeyond(RecentValues(patient_data, "oxygenSaturation", 98),
                               94, FALSE)
             risk_factors ==
                 (IF hr = "yes" THEN <<"elevated_heart_rate">> ELSE <<>>)
                 \o (IF temp = "yes" THEN <<"fever_pattern">> ELSE <<>>)
                 \o (IF sys = "yes" THEN <<"hypertension_risk">> ELSE <<>>)
                 \o (IF spo2 = "yes" THEN <<"respiratory_concern">> ELSE <<>>)
             risk_score ==
                 (IF hr = "yes" THEN 20 ELSE 0) + (IF temp = "yes" THEN 30 ELSE 0)
                 + (IF sys = "yes" THEN 40 ELSE 0) + (IF spo2 = "yes" THEN 50 ELSE 0)
             overall_risk == IF risk_score >= 70 THEN "high"
                             ELSE IF risk_score >= 40 THEN "medium"
                             ELSE IF risk_score >= 20 THEN "low"
                             ELSE "minimal"
         IN  IF "raise" \in {hr, temp, sys, spo2}
             THEN Raise("'>' not supported between instances of 'str' and 'int'")
             ELSE Return([overall_risk |-> overall_risk,
                          risk_score |-> IF risk_score < 100 THEN risk_score ELSE 100,
                          risk_factors |-> risk_factors,
                          recommendations |->
                              GetRiskRecommendations(overall_risk, risk_factors),
                          prediction_confidence |-> 75,
                          data_points_analyzed |-> Len(patient_data)])

\* try: ... except Exception as e: return {'overall_risk': 'error', ...}
PredictHealthRisks(patient_data) ==
    LET body == PredictHealthRisksBody(patient_data)
    IN  IF body.raised
        THEN Return([overall_risk |-> "error", risk_score |-> 0,
                     message |-> "Risk prediction failed: " \o body.error])
        ELSE body

RECURSIVE SumValues(_)
\* sum(values)
SumValues(values) ==
    IF Len(values) = 0 THEN 0 ELSE Head(values).v + SumValues(Tail(values))

Abs(n) == IF n < 0 THEN -n ELSE n

\* HealthMonitor._calculate_trend.  Both slices hold the same number of
\* values, so the averages compare as the sums do; the rounded numbers of the
\* result are left out.
CalculateTrend(values) ==
    IF Len(values) < 2 THEN Return([direction |-> "unknown"])
    ELSE LET recent == LastN(values, 3)
             older == FirstN(values, 3)
             numeric == \A i \in 1..Len(recent) : recent[i].num /\ older[i].num
             recent_sum == SumValues(recent)
             older_sum == SumValues(older)
             change == recent_sum - older_sum
             direction ==
                 IF older_sum = 0 \/ Abs(change) * 100 < 5 * Abs(older_sum) THEN "stable"
                 ELSE IF (change > 0) = (older_sum > 0) THEN "increasing"
                 ELSE "decreasing"
         IN  IF ~numeric
             THEN Raise("unsupported operand type(s) for +: 'int' and 'str'")
             ELSE Return([direction |-> IF direction = "increasing" THEN "concerning"
                                        ELSE IF direction = "decreasing" THEN "improving"
                                        ELSE "stable"])

TrendVitals ==
    {"heartRate", "temperature", "bloodPressureSystolic", "oxygenSaturation"}

\* [d.get(vital, 0) for d in patient_data if vital in d]
ValuesOf(patient_data, vital) ==
    LET having == SelectSeq(patient_data, LAMBDA d : vital \in DOMAIN d)
    IN  [i \in 1..Len(having) |-> having[i][vital]]

\* `if len(patient_data) < 10`
InsufficientForTrends(patient_data) == Len(patient_data) < 10

\* the try block of analyze_health_trends
AnalyzeHealthTrendsBody(patient_data, t) ==
    IF InsufficientForTrends(patient_data)
    THEN Return([status |-> "insufficient_data",
                 message |-> "Need at least 10 data points for trend analysis"])
    ELSE LET analysed == {vital \in TrendVitals : Len(ValuesOf(patient_data, vital)) >= 5}
             trend(vital) == CalculateTrend(ValuesOf(patient_data, vital))
             count(direction) ==
                 Cardinality({vital \in analysed : trend(vital).value.direction = direction})
             improving_trends == count("improving")
             stable_trends == count("stable")
             declining_trends == count("declining")
         IN  IF \E vital \in analysed : trend(vital).raised
             THEN Raise("unsupported operand type(s) for +: 'int' and 'str'")
             ELSE Return([overall_trajectory |->
                              IF improving_trends > declining_trends THEN "improving"
                              ELSE IF declining_trends > improving_trends THEN "declining"
                              ELSE "stable",
                          vital_trends |-> [vital \in analysed |-> trend(vital).value],
                          trend_summary |-> [improving |-> improving_trends,
                                             stable |-> stable_trends,
                                             declining |-> declining_trends],
                          analysis_period |-> Len(patient_data),
                          last_updated |-> t])

\* try: ... except Exception as e: return {'status': 'error', ...}
AnalyzeHealthTrends(patient_data, t) ==
    LET body == AnalyzeHealthTrendsBody(patient_data, t)
    IN  IF body.raised
        THEN Return([status |-> "error",
                     message |-> "Trend analysis failed: " \o body.error])
        ELSE body

(***************************************************************************)
(* HealthMonitor._analyze_trends.  The averages are compared exactly:      *)
(* a > b * 1.05 as 100 * a > 105 * b, cross-multiplied by the two lengths. *)
(***************************************************************************)
\* values[:len(values)//4]
FirstQuarter(values) ==
    IF Len(values) >= 4 THEN FirstN(values, Len(values) \div 4) ELSE FirstN(values, 1)

\* values[-len(values)//4:], where -len(values)//4 is (-len(values))//4
LastQuarter(values) ==
    IF Len(values) >= 4 THEN LastN(values, (Len(values) + 3) \div 4) ELSE LastN(values, 1)

\* EnoughForTrend with `len(values) >= 4`
EnoughForTrendAtFour(values) == Len(values) >= 4

\* `if len(values) >= 5`
EnoughForTrend(values) == Len(values) >= 5

TrendOf(values) ==
    IF EnoughForTrend(values)
    THEN LET first_quarter == FirstQuarter(values)
             last_quarter == LastQuarter(values)
             first == SumValues(first_quarter) * Len(last_quarter)
             last == SumValues(last_quarter) * Len(first_quarter)
         IN  IF last * 100 > first * 105 THEN "increasing"
             ELSE IF last * 100 < first * 95 THEN "decreasing"
             ELSE "stable"
    ELSE "insufficient_data"

AnalyzeTrends(vitals) == [vital \in DOMAIN vitals |-> TrendOf(vitals[vital])]

(***************************************************************************)
(* ai_service: POST /predict/risk and GET /patient/<id>/trends.  A route   *)
(* yields the HTTP status and the JSON body.                               *)
(***************************************************************************)
\* ServicePredictRisk with `len(patient_data) < 6`
ServicePredictRiskNeedsSix(recent, patient_id, t) ==
    LET patient_data == Get(recent, patient_id, <<>>)
        risk_analysis == PredictHealthRisks(patient_data)
    IN  IF patient_id = ""
        THEN [status |-> 400, body |-> [error |-> "Patient ID required"]]
        ELSE IF Len(patient_data) < 6
        THEN [status |-> 400,
              body |-> [error |-> "Insufficient data for risk prediction",
                        message |-> "Need at least 5 health readings"]]
        ELSE [status |-> 200,
              body |-> [patientId |-> patient_id,
                        riskPrediction |-> risk_analysis.value,
                        timestamp |-> t,
                        dataPoints |-> Len(patient_data)]]

ServicePredictRisk(recent, patient_id, t) ==
    LET patient_data == Get(recent, patient_id, <<>>)
        risk_analysis == PredictHealthRisks(patient_data)
    IN  IF patient_id = ""
        THEN [status |-> 400, body |-> [error |-> "Patient ID required"]]
        ELSE IF Len(patient_data) < 5
        THEN [status |-> 400,
              body |-> [error |-> "Insufficient data for risk prediction",
                        message |-> "Need at least 5 health readings"]]
        ELSE IF risk_analysis.raised
        THEN [status |-> 500, body |-> [error |-> "Risk prediction failed"]]
        ELSE [status |-> 200,
              body |-> [patientId |-> patient_id,
                        riskPrediction |-> risk_analysis.value,
                        timestamp |-> t,
                        dataPoints |-> Len(patient_data)]]

ServiceGetHealthTrends(recent, patient_id, t) ==
    LET patient_data == Get(recent, patient_id, <<>>)
        trends == AnalyzeHealthTrends(patient_data, t)
    IN  IF Len(patient_data) < 10
        THEN [status |-> 400,
              body |-> [error |-> "Insufficient data for trend analysis",
                        message |-> "Need at least 10 health readings"]]
        ELSE IF trends.raised
        THEN [status |-> 500, body |-> [error |-> "Trend analysis failed"]]
        ELSE [status |-> 200,
              body |-> [patientId |-> patient_id,
                        trends |-> trends.value,
                        dataPoints |-> Len(patient_data),
                        timestamp |-> t]]

(***************************************************************************)
(* HealthMonitor.get_patient_health_summary.  `days` is the window in      *)
(* clock units.  An operation yields the store it leaves and its outcome.  *)
(* The float overall_health_score of the statistics is left out.           *)
(***************************************************************************)
\* the keys of `vitals` in _calculate_health_statistics
SummaryVitals ==
    <<"heart_rate", "temperature", "systolic_bp", "diastolic_bp", "spo2",
      "respiratory_rate">>

\* the records with record_time > cutoff_date, in stored order
RecentData(records, days, t) ==
    SelectSeq(records, LAMBDA record : record["timestamp"].v > t - days)

\* min(values)
MinValue(values) ==
    CHOOSE m \in {values[i].v : i \in 1..Len(values)} :
        \A i \in 1..Len(values) : m <= values[i].v

\* max(values)
MaxValue(values) ==
    CHOOSE m \in {values[i].v : i \in 1..Len(values)} :
        \A i \in 1..Len(values) : m >= values[i].v

\* _calculate_health_statistics; the average is kept as total / readings_count
CalculateHealthStatistics(health_data) ==
    LET vitals == [i \in 1..Len(SummaryVitals) |-> ValuesOf(health_data, SummaryVitals[i])]
        present == {i \in 1..Len(SummaryVitals) : Len(vitals[i]) > 0}
        numeric == \A i \in present : \A k \in 1..Len(vitals[i]) : vitals[i][k].num
        byName == [name \in {SummaryVitals[i] : i \in 1..Len(SummaryVitals)} |->
                      vitals[CHOOSE i \in 1..Len(SummaryVitals) : SummaryVitals[i] = name]]
    IN  IF ~numeric
        THEN Raise("unsupported operand type(s) for +: 'int' and 'str'")
        ELSE Return(
               [vital_signs_summary |->
                    [name \in {SummaryVitals[i] : i \in present} |->
                        [total |-> SumValues(byName[name]),
                         minimum |-> MinValue(byName[name]),
                         maximum |-> MaxValue(byName[name]),
                         readings_count |-> Len(byName[name])]],
                health_trends |-> AnalyzeTrends(byName),
                alert_frequency |-> [total_readings |-> Len(health_data),
                                     estimated_alerts |-> Len(health_data) \div 20,
                                     alert_rate_percentage |-> 5]])

\* GetPatientHealthSummary that keeps only the recent records in the store
GetPatientHealthSummaryPruning(history, device_id, days, t) ==
    IF device_id \notin DOMAIN history
    THEN [history |-> history,
          outcome |-> Return([error |-> "No health data available for this device"])]
    ELSE [history |-> [history EXCEPT ![device_id] = RecentData(@, days, t)],
          outcome |-> Return([error |-> "No recent health data available"])]

GetPatientHealthSummary(history, device_id, days, t) ==
    IF device_id \notin DOMAIN history
    THEN [history |-> history,
          outcome |-> Return([error |-> "No health data available for this device"])]
    ELSE LET recent_data == RecentData(history[device_id], days, t)
             summary == CalculateHealthStatistics(recent_data)
         IN  [history |-> history,
              outcome |->
                 IF Len(recent_data) = 0
                 THEN Return([error |-> "No recent health data available"])
                 ELSE IF summary.raised THEN summary
                 ELSE Return(summary.value @@
                             [device_id |-> device_id,
                              summary_period_days |-> days,
                              total_readings |-> Len(recent_data),
                              first_reading |-> recent_data[1]["timestamp"],
                              last_reading |-> recent_data[Len(recent_data)]["timestamp"],
                              generated_at |-> Stamp(t)])]

(***************************************************************************)
(* HealthMonitorSimulation, the monitor create_health_monitor falls back   *)
(* to.  Its analyze_health_data has no try block.                          *)
(***************************************************************************)
\* _simulate_ai_analysis
SimulateAiAnalysis(items) ==
    LET hr == Get(items, "heart_rate", Num(70)).v
        temp == Get(items, "temperature", Num(368)).v
        spo2 == Get(items, "spo2", Num(98)).v
        is_concerning == hr > 100 \/ hr < 50 \/ temp > 380 \/ temp < 350 \/ spo2 < 95
        risk_score == IF is_concerning THEN 70 ELSE 20
        risk_level == IF is_concerning THEN "high" ELSE "low"
        emergency_type ==
            IF ~is_concerning THEN "normal"
            ELSE IF spo2 < 95 THEN "respiratory_distress"
            ELSE IF hr > 100 THEN "tachycardia"
            ELSE "fever"
    IN  [anomaly |->
            [is_anomaly |-> is_concerning, risk_score |-> risk_score * 100,
             risk_level |-> risk_level,
             recommendations |-> IF is_concerning THEN <<"Monitor closely">>
                                 ELSE <<"Continue normal monitoring">>],
         emergency |->
            [predicted_emergency |-> emergency_type,
             confidence |-> IF is_concerning THEN 80 ELSE 90,
             severity |-> IF is_concerning THEN "high" ELSE "normal",
             recommended_actions |-> IF is_concerning THEN <<"Seek medical attention">>
                                     ELSE <<"Continue monitoring">>],
         risk |->
            [overall_risk_score |-> risk_score, risk_level |-> risk_level,
             confidence |-> 80,
             recommendations |-> IF is_concerning THEN <<"Contact healthcare provider">>
                                 ELSE <<"Maintain healthy habits">>]]

\* HealthMonitorSimulation.analyze_health_data: the store after it, and what
\* it returned or raised
SimulationAnalyzeHealthData(history, device_id, health_data, t) ==
    LET stored == StoreHealthData(history, device_id, health_data, t)
        alerts == CheckImmediateAlerts(health_data.items)
        simulated == SimulateAiAnalysis(health_data.items)
    IN  [history |-> stored.history,
         outcome |->
            IF stored.raised THEN Raise(stored.error)
            ELSE IF alerts.raised THEN Raise(alerts.error)
            ELSE Return(CombineAnalysisResults(health_data.items, alerts.value,
                                               simulated.anomaly, simulated.emergency,
                                               simulated.risk)
                        @@ [device_id |-> device_id,
                            analysis_timestamp |-> t,
                            ai_models_enabled |-> FALSE,
                            simulation_mode |-> TRUE])]

(***************************************************************************)
(* HealthMonitor.retrain_models and the scorers' retrain methods.  Whether *)
(* fitting succeeds on usable data is the environment's choice (fit_ok).   *)
(***************************************************************************)
MinTrainingData == 50

\* required_cols / required_features of the three retrain methods
RequiredColumns ==
    {"heart_rate", "temperature", "systolic_bp", "diastolic_bp", "spo2",
     "respiratory_rate"}

\* pd.DataFrame(training_data).columns
Columns(training_data) ==
    UNION {DOMAIN training_data[i] : i \in 1..Len(training_data)}

\* <scorer>.retrain: the scorer's state after it, "trained" once fitting succeeded
RetrainScorer(state, training_data, fit_ok) ==
    IF RequiredColumns \subseteq Columns(training_data) /\ fit_ok
    THEN "trained" ELSE state

\* the dict a retrain method returns, reduced to its status
RetrainResult(training_data, fit_ok) ==
    IF ~(RequiredColumns \subseteq Columns(training_data)) THEN "Missing required columns"
    ELSE IF fit_ok THEN "success" ELSE "Retraining failed"

\* HealthMonitor.retrain_models: the scorers after it and the returned dict
RetrainModels(mods, training_data, fit_ok, t) ==
    IF Len(training_data) < MinTrainingData
    THEN [models |-> mods,
          value |-> [status |-> "insufficient_data",
                     message |-> "Need at least 50 data points for retraining"]]
    ELSE LET present == {sc \in Scorers : mods[sc] # "none"}
         IN  [models |-> [sc \in Scorers |->
                             IF sc \in present
                             THEN RetrainScorer(mods[sc], training_data, fit_ok[sc])
                             ELSE mods[sc]],
              value |-> [status |-> "completed",
                         training_data_size |-> Len(training_data),
                         model_results |->
                             [sc \in present |-> RetrainResult(training_data, fit_ok[sc])],
                         retrain_timestamp |-> t]]

(***************************************************************************)
(* Inputs.                                                                 *)
(***************************************************************************)
NormalVitals ==
    [heart_rate |-> Num(72), temperature |-> Num(368), systolic_bp |-> Num(120),
     diastolic_bp |-> Num(80), spo2 |-> Num(98), respiratory_rate |-> Num(16)]

\* the reading of test_environment.test_health_monitor: no key is a known vital
CamelCaseVitals ==
    [heartRate |-> Num(85), temperature |-> Num(372),
     bloodPressureSystolic |-> Num(130), bloodPressureDiastolic |-> Num(85),
     oxygenSaturation |-> Num(96)]

SpecReadings ==
    { Dict(NormalVitals),
      Dict([NormalVitals EXCEPT !.heart_rate = Num(35)]),
      NotADict }

FusionReadings ==
    { Dict(NormalVitals),
      Dict(CamelCaseVitals),
      Dict([NormalVitals EXCEPT !.heart_rate = Num(35)]),
      Dict([heart_rate |-> Num(39)]),
      Dict([NormalVitals EXCEPT !.heart_rate = Num(40)]),
      Dict([heart_rate |-> Num(155), temperature |-> Num(392), spo2 |-> Num(89)]),
      Dict([NormalVitals EXCEPT !.systolic_bp = Num(185)]),
      Dict([NormalVitals EXCEPT !.heart_rate = Num(35), !.temperature = NonNumeric]),
      Dict([NormalVitals EXCEPT !.spo2 = NonNumeric]),
      NotADict }

SpecAnomalyOutcomes ==
    { AnomalyOutcome(TRUE, FALSE, 0, 0), AnomalyOutcome(FALSE, TRUE, 90, 12) }
SpecClassifierOutcomes == { ClassifierOutcome(FALSE, "normal", 90) }
SpecRiskOutcomes == { RiskOutcome(FALSE, 30, 90) }

FusionAnomalyOutcomes ==
    { AnomalyOutcome(TRUE, FALSE, 0, 0) }
    \cup { AnomalyOutcome(FALSE, b, p, 12) : b \in BOOLEAN, p \in {20, 70, 90} }

FusionClassifierOutcomes ==
    { ClassifierOutcome(TRUE, "normal", 0) }
    \cup { ClassifierOutcome(FALSE, ty, c) :
             ty \in {"normal", "cardiac_arrest", "hyperthermia", "fall_detected"},
             c \in {70, 71, 90} }

FusionRiskOutcomes ==
    { RiskOutcome(TRUE, 0, 0) }
    \cup { RiskOutcome(FALSE, sc, c) : sc \in {30, 60, 61, 85}, c \in {50, 90} }

\* What construction can leave: AI disabled or enabled; the three scorer
\* attributes all None (classes not importable) or all objects, each trained
\* (loaded or trained) or not.
AllMonitorConfigs ==
    { [enable |-> en, models |-> m] :
        en \in BOOLEAN,
        m \in {[sc \in Scorers |-> "none"]} \cup [Scorers -> {"untrained", "trained"}] }

SpecMonitorConfigs ==
    { c \in AllMonitorConfigs :
        \/ c.models = [sc \in Scorers |-> "none"]
        \/ c.enable /\ c.models = [sc \in Scorers |-> "trained"]
        \/ c.enable /\ c.models = [sc \in Scorers |-> "untrained"] }

\* A store as n earlier calls with NormalVitals leave it; the modelled calls
\* start at time 1.
PrefillLengths == {0, 4, HistoryCap - 1}

MonitorPrefill(n) == [i \in 1..n |-> TimestampedData(NormalVitals, i - n)]
ServicePrefill(n) == [i \in 1..n |-> ServiceEntry(NormalVitals, i - n)]

\* the stores as dicts holding the devices with at least one reading
MonitorStore(lens) ==
    [d \in {x \in DOMAIN lens : lens[x] > 0} |-> MonitorPrefill(lens[d])]
ServiceStore(lens) ==
    [d \in {x \in DOMAIN lens : lens[x] > 0} |-> ServicePrefill(lens[d])]

NoCall == [op |-> "none", device_id |-> "", health_data |-> NotADict,
           anomaly |-> NotCalled, classifier |-> NotCalled, risk |-> NotCalled]
NoResult == [raised |-> FALSE, value |-> None, error |-> ""]

(***************************************************************************)
(* The operations as actions.                                              *)
(***************************************************************************)
AppendedAfter(log, device_id, entry) ==
    IF device_id \in DOMAIN log
    THEN [log EXCEPT ![device_id] = Append(@, entry)]
    ELSE log @@ (device_id :> <<entry>>)

\* a direct call of HealthMonitor.analyze_health_data
MonitorCall(op, device_id, health_data, a_out, e_out, r_out) ==
    LET done == AnalyzeHealthData(health_history, enable_ai_models, models, device_id,
                                  health_data, now, a_out, e_out, r_out)
    IN  /\ health_history' = done.history
        /\ result' = done.outcome
        /\ appended' = IF health_data.is_dict
                       THEN AppendedAfter(appended, device_id,
                                          TimestampedData(health_data.items, now))
                       ELSE appended
        /\ call' = [op |-> op, device_id |-> device_id, health_data |-> health_data,
                    anomaly |-> a_out, classifier |-> e_out, risk |-> r_out]
        /\ now' = now + 1
        /\ UNCHANGED <<enable_ai_models, models>>

\* What the scorers of a call may compute: <<anomaly, classifier, risk>>
\* outcomes, NotCalled for a scorer the call does not reach.
OutcomeChoices(health_data, aOuts, eOuts, rOuts) ==
    LET en == enable_ai_models
        aChoices == IF AnomalyCalled(en, models, health_data) THEN aOuts ELSE {NotCalled}
        eChoices(a) == IF ClassifierCalled(en, models, health_data, a)
                       THEN eOuts ELSE {NotCalled}
        rChoices(a, e) == IF RiskCalled(en, models, health_data, a, e)
                          THEN rOuts ELSE {NotCalled}
    IN  UNION { UNION { { <<a, e, r>> : r \in rChoices(a, e) } : e \in eChoices(a) }
                : a \in aChoices }

MonitorAnalyzeStep(device_id, health_data, a_out, e_out, r_out) ==
    /\ MonitorCall("monitor", device_id, health_data, a_out, e_out, r_out)
    /\ response' = 0
    /\ UNCHANGED <<recent_health_data, emergency_alerts, received, skipped, threads>>

\* POST /analyze/health-data with patientId and healthData present
ServiceAnalyzeStep(patient_id, health_data, a_out, e_out, r_out) ==
    LET stored == StoreRecent(recent_health_data, patient_id, health_data, now)
        done == AnalyzeHealthData(health_history, enable_ai_models, models, patient_id,
                                  health_data, now, a_out, e_out, r_out)
        analysis == done.outcome.value
    IN  /\ recent_health_data' = stored.recent
        /\ UNCHANGED <<skipped, threads>>
        /\ IF stored.raised
           THEN \* the route's own except: 500, the monitor is never called
                /\ response' = 500
                /\ result' = NoResult
                /\ call' = [op |-> "service", device_id |-> patient_id,
                            health_data |-> health_data, anomaly |-> NotCalled,
                            classifier |-> NotCalled, risk |-> NotCalled]
                /\ now' = now + 1
                /\ UNCHANGED <<health_history, emergency_alerts, enable_ai_models,
                               models, appended, received>>
           ELSE /\ MonitorCall("service", patient_id, health_data, a_out, e_out, r_out)
                /\ received' = AppendedAfter(received, patient_id,
                                             ServiceEntry(health_data.items, now))
                /\ IF done.outcome.raised
                   THEN response' = 500 /\ UNCHANGED emergency_alerts
                   ELSE /\ response' = 200
                        /\ emergency_alerts' =
                             IF EmergencyDetected(analysis)
                             THEN Append(emergency_alerts,
                                         EmergencyAlert(patient_id, analysis,
                                                        health_data.items, now))
                             ELSE emergency_alerts

MonitorAnalyze ==
    /\ now <= MaxCalls
    /\ \E device_id \in Devices, health_data \in SpecReadings :
         \E o \in OutcomeChoices(health_data, SpecAnomalyOutcomes,
                                 SpecClassifierOutcomes, SpecRiskOutcomes) :
             MonitorAnalyzeStep(device_id, health_data, o[1], o[2], o[3])

ServiceAnalyze ==
    /\ now <= MaxCalls
    /\ \E patient_id \in Devices, health_data \in SpecReadings :
         \E o \in OutcomeChoices(health_data, SpecAnomalyOutcomes,
                                 SpecClassifierOutcomes, SpecRiskOutcomes) :
             ServiceAnalyzeStep(patient_id, health_data, o[1], o[2], o[3])

FusionAnalyze ==
    /\ call.op = "none"
    /\ \E health_data \in FusionReadings :
         \E o \in OutcomeChoices(health_data, FusionAnomalyOutcomes,
                                 FusionClassifierOutcomes, FusionRiskOutcomes) :
             MonitorAnalyzeStep("dev-1", health_data, o[1], o[2], o[3])

(***************************************************************************)
(* Specifications.                                                         *)
(***************************************************************************)
InitState(configs, lengths) ==
    /\ \E c \in configs : enable_ai_models = c.enable /\ models = c.models
    /\ \E lens \in [Devices -> lengths] :
         /\ health_history = MonitorStore(lens)
         /\ appended = MonitorStore(lens)
         /\ recent_health_data = ServiceStore(lens)
         /\ received = ServiceStore(lens)
    /\ emergency_alerts = <<>>
    /\ now = 1
    /\ call = NoCall
    /\ result = NoResult
    /\ response = 0
    /\ skipped = {}

\* no request is in flight
InitWith(configs, lengths) == InitState(configs, lengths) /\ threads = <<>>

\* the service and its monitor, with stores as earlier requests left them
Init == InitWith(SpecMonitorConfigs, PrefillLengths)

Next == MonitorAnalyze \/ ServiceAnalyze

Spec == Init /\ [][Next]_vars

\* the first analysis of a fresh monitor, over every input combination
InitFusion == InitWith(AllMonitorConfigs, {0})

NextFusion == FusionAnalyze

SpecFusion == InitFusion /\ [][NextFusion]_vars

(***************************************************************************)
(* Properties.                                                             *)
(***************************************************************************)
Called == call.op # "none"
Items == call.health_data.items
Analysis == result.value
Status == result.value.overall_status

PresentVitals == {VitalOrder[i] : i \in 1..Len(VitalOrder)} \cap DOMAIN Items

\* the reading is a mapping whose known vitals are all numbers
WellFormed == call.health_data.is_dict /\ \A vital \in PresentVitals : Items[vital].num

\* every scorer the call invoked returned a result
AllReturned ==
    ~Failed(call.anomaly) /\ ~Failed(call.classifier) /\ ~Failed(call.risk)

\* some vital of the reading lies outside its critical bounds
Breach ==
    \E vital \in PresentVitals :
        \/ Items[vital].v < critical_thresholds[vital].min
        \/ Items[vital].v > critical_thresholds[vital].max

Entries(log, device) == IF device \in DOMAIN log THEN log[device] ELSE <<>>

\* `stored` is the last HistoryCap entries of `log`, in order
IsTailOf(stored, log) ==
    /\ Len(stored) <= HistoryCap
    /\ Len(stored) = (IF Len(log) > HistoryCap THEN HistoryCap ELSE Len(log))
    /\ \A i \in 1..Len(stored) : stored[i] = log[Len(log) - Len(stored) + i]

\* C1: after any sequence of appends each device's stored history (the monitor's
\* and the service's) has at most 100 entries and equals the most recent 100
\* appended readings in insertion order.
C1_HistoryBounded ==
    /\ \A d \in DOMAIN health_history \cup DOMAIN appended :
          IsTailOf(Entries(health_history, d), Entries(appended, d))
    /\ \A d \in DOMAIN recent_health_data \cup DOMAIN received :
          IsTailOf(Entries(recent_health_data, d), Entries(received, d))

\* an append went past the cap: the oldest entry is gone, the newest is last
C1_Witness ==
    \E d \in DOMAIN appended :
        /\ Len(appended[d]) > HistoryCap
        /\ Len(health_history[d]) = HistoryCap
        /\ health_history[d][1] = appended[d][Len(appended[d]) - HistoryCap + 1]
        /\ health_history[d][HistoryCap] = appended[d][Len(appended[d])]

\* C2: a well-formed reading with heart_rate below 40 yields level=emergency,
\* severity=critical, confidence=0.95 whatever results the scorers return.
C2_ThresholdPrecedence ==
    (/\ Called /\ WellFormed /\ AllReturned
     /\ "heart_rate" \in DOMAIN Items
     /\ Items["heart_rate"].v < 40)
    => (/\ ~result.raised
        /\ Status.level = "emergency"
        /\ Status.severity = "critical"
        /\ Status.confidence = 95)

\* heart rate 35 while the classifier, the anomaly detector and the risk
\* predictor all returned results that would fire rules 2, 3 and 4
C2_Witness ==
    /\ Called /\ WellFormed
    /\ "heart_rate" \in DOMAIN Items /\ Items["heart_rate"].v = 35
    /\ call.classifier.called /\ ~call.classifier.raises
    /\ call.classifier.type = "cardiac_arrest" /\ call.classifier.confidence = 71
    /\ call.anomaly.called /\ ~call.anomaly.raises /\ call.anomaly.is_anomaly
    /\ call.risk.called /\ ~call.risk.raises /\ call.risk.score = 85
    /\ Status.level = "emergency"
    /\ Status.primary_concern = "heart_rate critically low: 35"

NoScorerAvailable ==
    ~enable_ai_models \/ \A sc \in Scorers : models[sc] # "trained"

\* C3: with no scorer available and no critical threshold breached the verdict
\* is level=normal, severity=normal, confidence=0.8, primary_concern None.
C3_NoSignalsIsNormal ==
    (Called /\ WellFormed /\ NoScorerAvailable /\ ~Breach)
    => (/\ ~result.raised
        /\ Status.level = "normal"
        /\ Status.severity = "normal"
        /\ Status.confidence = 80
        /\ Status.primary_concern = NoConcern)

\* AI enabled but every model untrained, a reading inside the bounds
C3_Witness ==
    /\ Called /\ WellFormed /\ ~Breach
    /\ enable_ai_models /\ \A sc \in Scorers : models[sc] = "untrained"
    /\ PresentVitals # {}
    /\ Status.level = "normal"

SomeScorerFailed ==
    Failed(call.anomaly) \/ Failed(call.classifier) \/ Failed(call.risk)

\* C4: a scorer that raises is treated as an absent signal: the analysis is not
\* aborted, and a reading with a threshold breach still yields level=emergency.
C4_ScorerFailureAbsorbed ==
    (Called /\ WellFormed /\ SomeScorerFailed)
    => (/\ ~result.raised
        /\ Status.level # "error"
        /\ (Breach => Status.level = "emergency"))

\* some step of the call raises
SomeStepRaises == ~WellFormed \/ SomeScorerFailed

\* C5: analyze_health_data never propagates an exception: when storing, the
\* threshold check or a scorer raises it returns the error verdict (level=error,
\* confidence=0.0, primary_concern "Analysis failed") with the cause and a timestamp.
C5_NeverPropagates ==
    Called =>
        /\ ~result.raised
        /\ SomeStepRaises =>
              /\ Status.level = "error"
              /\ Status.confidence = 0
              /\ Status.primary_concern = "Analysis failed"
              /\ "error" \in DOMAIN Analysis /\ Analysis.error # ""
              /\ Contains(Status.summary, Analysis.error)
              /\ "analysis_timestamp" \in DOMAIN Analysis
              /\ Analysis.analysis_timestamp = now - 1

\* the risk predictor, called last, raised and the error verdict came back
C5_Witness ==
    /\ Called /\ Failed(call.risk)
    /\ ~result.raised
    /\ Status.level = "error"
    /\ Analysis.error = "risk predictor failed"

\* every step of the call returned: the verdict is a fused one
Completed == Called /\ WellFormed /\ AllReturned

NoAlert == Len(Analysis.immediate_alerts) = 0

\* the signals as the returned analysis reports them
HasClassification == "emergency_classification" \in DOMAIN Analysis
Classification == Analysis.emergency_classification
HasAnomaly == "anomaly_detection" \in DOMAIN Analysis
Anomaly == Analysis.anomaly_detection
HasRisk == "risk_prediction" \in DOMAIN Analysis
Risk == Analysis.risk_prediction

ClassificationCondition ==
    /\ HasClassification
    /\ Classification.predicted_emergency # "normal"
    /\ Classification.confidence > 70

AnomalyCondition ==
    HasAnomaly /\ Anomaly.is_anomaly /\ Anomaly.risk_level \in {"high", "critical"}

RiskCondition == HasRisk /\ Risk.overall_risk_score > 60

\* C6: with no threshold alert, a classification other than "normal" with
\* confidence > 0.7 decides the verdict (emergency if its severity is critical,
\* warning otherwise; its severity; its confidence), also when the anomaly and
\* risk conditions hold; a confidence of 0.7 or less does not fire the rule.
C6_ClassificationDecides ==
    (Completed /\ NoAlert /\ HasClassification)
    => /\ ClassificationCondition =>
             /\ Status.level = (IF Classification.severity = "critical"
                                THEN "emergency" ELSE "warning")
             /\ Status.severity = Classification.severity
             /\ Status.confidence = Classification.confidence
       /\ Classification.confidence <= 70 =>
             /\ ~Contains(Status.primary_concern, "Potential ")
             /\ ~Contains(Status.summary, "Emergency classification")

\* hyperthermia at 0.71 (severity medium) wins over an anomaly of risk level
\* high and a risk score of 0.85
C6_Witness ==
    /\ Completed /\ NoAlert /\ ClassificationCondition
    /\ Classification.predicted_emergency = "hyperthermia"
    /\ Classification.confidence = 71
    /\ AnomalyCondition /\ RiskCondition
    /\ Status.level = "warning" /\ Status.severity = "medium"
    /\ Status.confidence = 71

\* C7: with no threshold alert and the classification rule not firing, an
\* anomalous result of risk level high or critical yields level=warning with
\* that severity, also when the risk score is above 0.6; an anomalous result of
\* any other risk level does not fire the rule.
C7_AnomalyWarns ==
    (Completed /\ NoAlert /\ ~ClassificationCondition /\ HasAnomaly /\ Anomaly.is_anomaly)
    => /\ Anomaly.risk_level \in {"high", "critical"} =>
             /\ Status.level = "warning"
             /\ Status.severity = Anomaly.risk_level
             /\ Status.confidence = call.anomaly.confidence
       /\ Anomaly.risk_level \notin {"high", "critical"} =>
             Status.primary_concern # "Abnormal vital sign patterns detected"

\* an anomaly of risk level high beside a risk score of 0.85
C7_Witness ==
    /\ Completed /\ NoAlert /\ ~ClassificationCondition
    /\ AnomalyCondition /\ Anomaly.risk_level = "high"
    /\ HasRisk /\ Risk.overall_risk_score = 85
    /\ Status.level = "warning" /\ Status.severity = "high"

\* C8: level=caution is returned exactly when no threshold alert exists,
\* neither the classification nor the anomaly rule fires and a risk result has
\* a score > 0.6; severity and confidence are then the risk result's.  A score
\* of 0.6 or less yields level=normal.
C8_CautionExactly ==
    Called =>
        /\ (Status.level = "caution")
             <=> (Completed /\ NoAlert /\ ~ClassificationCondition
                  /\ ~AnomalyCondition /\ RiskCondition)
        /\ Status.level = "caution" =>
             /\ Status.severity = Risk.risk_level
             /\ Status.confidence = call.risk.confidence
        /\ (Completed /\ NoAlert /\ ~ClassificationCondition /\ ~AnomalyCondition
            /\ HasRisk /\ Risk.overall_risk_score <= 60)
             => Status.level = "normal"

\* a risk score of 0.61 with confidence 0.5 gives caution / high / 0.5
C8_Witness ==
    /\ Completed /\ HasRisk /\ Risk.overall_risk_score = 61
    /\ HasClassification /\ HasAnomaly
    /\ Status.level = "caution" /\ Status.severity = "high"
    /\ Status.confidence = 50

\* C9: a classification of cardiac_arrest with confidence 0.9 and no threshold
\* breach yields level=emergency, severity=critical and a primary_concern
\* containing "cardiac arrest".
C9_CardiacArrest ==
    (/\ Completed /\ ~Breach
     /\ call.classifier.called
     /\ call.classifier.type = "cardiac_arrest"
     /\ call.classifier.confidence = 90)
    => (/\ Status.level = "emergency"
        /\ Status.severity = "critical"
        /\ Contains(Status.primary_concern, "cardiac arrest"))

C9_Witness ==
    /\ Completed /\ ~Breach
    /\ call.classifier.called
    /\ call.classifier.type = "cardiac_arrest"
    /\ call.classifier.confidence = 90
    /\ Status.primary_concern = "Potential cardiac arrest detected"

\* C10: the recommendations of every analysis result are at most 10 and hold
\* no string twice.
C10_RecommendationsBounded ==
    Called =>
        LET recs == Analysis.recommendations
        IN  /\ Len(recs) <= 10
            /\ \A i, j \in 1..Len(recs) : i # j => recs[i] # recs[j]

\* an alert, an anomaly of level high, cardiac_arrest actions and the risk
\* advice for a score of 0.61 are 13 strings, two of them equal: 10 are returned
C10_Witness ==
    /\ Completed /\ ~NoAlert
    /\ HasAnomaly /\ Anomaly.risk_level = "high"
    /\ HasClassification /\ Classification.predicted_emergency = "cardiac_arrest"
    /\ HasRisk /\ Risk.overall_risk_score = 61
    /\ Len(Analysis.recommendations) = 10

\* the four sources of recommendations in the order the claim gives them
SourceRecommendations ==
    (IF NoAlert THEN <<>> ELSE <<"IMMEDIATE MEDICAL ATTENTION REQUIRED">>)
    \o (IF HasAnomaly THEN generate_recommendations(Anomaly.risk_level) ELSE <<>>)
    \o (IF HasClassification
        THEN get_emergency_actions(Classification.predicted_emergency) ELSE <<>>)
    \o (IF HasRisk THEN generate_risk_recommendations(Risk.overall_risk_score) ELSE <<>>)

\* positions of `all` holding the first occurrence of their string
FirstOccurrences(all) ==
    {i \in 1..Len(all) : \A j \in 1..(i - 1) : all[j] # all[i]}

\* C11: the recommendations are the first 10 entries of: the immediate-attention
\* line if a threshold alert fired, the anomaly recommendations, the
\* classification actions, the risk recommendations, each string kept at its
\* first occurrence only and the order otherwise preserved.
C11_RecommendationOrder ==
    Completed =>
        LET all == SourceRecommendations
            first == FirstOccurrences(all)
            rank(i) == Cardinality({j \in first : j <= i})
            recs == Analysis.recommendations
        IN  /\ Len(recs) = (IF Cardinality(first) > 10 THEN 10 ELSE Cardinality(first))
            /\ \A i \in first : rank(i) <= 10 => recs[rank(i)] = all[i]

\* an alert, anomaly advice of level high, the actions for "normal" and the
\* risk advice for 0.61: "Avoid strenuous activities" comes twice and is kept
\* once, at its first place, so that "Stay hydrated and rest" moves up to 9
C11_Witness ==
    /\ Completed /\ ~NoAlert
    /\ HasAnomaly /\ Anomaly.risk_level = "high"
    /\ HasClassification /\ Classification.predicted_emergency = "normal"
    /\ HasRisk /\ Risk.overall_risk_score = 61
    /\ Len(SourceRecommendations) = 11
    /\ Analysis.recommendations[1] = "IMMEDIATE MEDICAL ATTENTION REQUIRED"
    /\ Analysis.recommendations[4] = "Avoid strenuous activities"
    /\ Analysis.recommendations[5] = "Continue normal monitoring"
    /\ Analysis.recommendations[9] = "Stay hydrated and rest"
    /\ Len(Analysis.recommendations) = 10

\* the reading of the scenario
ScenarioReading ==
    [heart_rate |-> Num(155), temperature |-> Num(392), spo2 |-> Num(89)]

\* C13: the reading {heart_rate 155, temperature 39.2, spo2 89} produces three
\* alerts in table order (heart_rate above max, temperature above max, spo2
\* below min); the level is emergency and the primary concern is the
\* heart_rate alert's message.
C13_ThreeBreaches ==
    (Completed /\ Items = ScenarioReading)
    => LET alerts == Analysis.immediate_alerts
       IN  /\ Len(alerts) = 3
           /\ alerts[1].vital_sign = "heart_rate" /\ alerts[1].type = "critical_high"
           /\ alerts[1].current_value = 155 /\ alerts[1].threshold = 150
           /\ alerts[2].vital_sign = "temperature" /\ alerts[2].type = "critical_high"
           /\ alerts[2].current_value = 392 /\ alerts[2].threshold = 390
           /\ alerts[3].vital_sign = "spo2" /\ alerts[3].type = "critical_low"
           /\ alerts[3].current_value = 89 /\ alerts[3].threshold = 90
           /\ Status.level = "emergency"
           /\ Status.primary_concern = alerts[1].message
           /\ Status.primary_concern = "heart_rate critically high: 155"

\* the scenario analysed while every scorer returned a result
C13_Witness ==
    /\ Completed /\ Items = ScenarioReading
    /\ HasAnomaly /\ HasClassification /\ HasRisk
    /\ Len(Analysis.immediate_alerts) = 3
    /\ Analysis.immediate_alerts[2].message = "temperature critically high: 39.2"
    /\ Status.level = "emergency"

(***************************************************************************)
(* _check_immediate_alerts on its own, over readings that hold each vital  *)
(* at a value around its bounds or not at all.                             *)
(***************************************************************************)
\* per vital: just below min, min, max, just above max
ProbeValues(vital) ==
    <<critical_thresholds[vital].min - 1, critical_thresholds[vital].min,
      critical_thresholds[vital].max, critical_thresholds[vital].max + 1>>

\* a key of the reading that the thresholds table does not hold
ExtraKey == "stress_level"

\* pick[vital] = 0 leaves the vital out, 1..4 picks a probe value
ProbeReading(pick, extra) ==
    [vital \in {v \in DOMAIN pick : pick[v] > 0} |-> Num(ProbeValues(vital)[pick[vital]])]
    @@ (IF extra THEN ExtraKey :> Num(999) ELSE <<>>)

AlertReadings ==
    { ProbeReading(pick, extra) :
        pick \in [DOMAIN critical_thresholds -> 0..4], extra \in BOOLEAN }

\* a call of HealthMonitor._check_immediate_alerts
CheckAlerts ==
    /\ call.op = "none"
    /\ \E reading \in AlertReadings :
         /\ call' = [NoCall EXCEPT !.op = "check_immediate_alerts",
                                   !.health_data = Dict(reading)]
         /\ result' = CheckImmediateAlerts(reading)
    /\ UNCHANGED <<health_history, recent_health_data, emergency_alerts,
                   enable_ai_models, models, now, appended, received, response,
                   skipped, threads>>

\* HealthMonitor(enable_ai_models=False): no scorer is constructed
DisabledMonitor == { [enable |-> FALSE, models |-> [sc \in Scorers |-> "none"]] }

InitAlerts == InitWith(DisabledMonitor, {0})

NextAlerts == CheckAlerts

SpecAlerts == InitAlerts /\ [][NextAlerts]_vars

AlertsChecked == call.op = "check_immediate_alerts"

\* the alerts of the result that are about `vital`
AlertsAbout(vital) ==
    {i \in 1..Len(result.value) : result.value[i].vital_sign = vital}

\* C12: _check_immediate_alerts yields an alert for a vital exactly when the
\* vital is in the reading and in the thresholds table and its value is
\* strictly below min or strictly above max; a value equal to a bound gives no
\* alert, a missing vital is skipped without error, every alert is critical.
C12_AlertExactly ==
    AlertsChecked =>
        /\ ~result.raised
        /\ \A i \in 1..Len(result.value) :
              /\ result.value[i].severity = "critical"
              /\ result.value[i].vital_sign \in DOMAIN critical_thresholds
        /\ \A vital \in DOMAIN critical_thresholds \cup DOMAIN Items :
              LET breached ==
                      /\ vital \in DOMAIN Items
                      /\ vital \in DOMAIN critical_thresholds
                      /\ \/ Items[vital].v < critical_thresholds[vital].min
                         \/ Items[vital].v > critical_thresholds[vital].max
              IN  /\ Cardinality(AlertsAbout(vital)) = (IF breached THEN 1 ELSE 0)
                  /\ \A i \in AlertsAbout(vital) :
                        /\ result.value[i].current_value = Items[vital].v
                        /\ result.value[i].type =
                             (IF Items[vital].v < critical_thresholds[vital].min
                              THEN "critical_low" ELSE "critical_high")

\* heart rate at min, spo2 at max, no temperature, an unknown key, systolic
\* pressure one above max: the only alert is the pressure's
C12_Witness ==
    /\ AlertsChecked
    /\ "heart_rate" \in DOMAIN Items /\ Items["heart_rate"].v = 40
    /\ "spo2" \in DOMAIN Items /\ Items["spo2"].v = 100
    /\ "temperature" \notin DOMAIN Items
    /\ ExtraKey \in DOMAIN Items
    /\ "systolic_bp" \in DOMAIN Items /\ Items["systolic_bp"].v = 181
    /\ Len(result.value) = 1
    /\ result.value[1].vital_sign = "systolic_bp"
    /\ result.value[1].type = "critical_high"

(***************************************************************************)
(* The service's forecast and trend routes beside its analysis route, and  *)
(* direct calls of the two monitor methods behind them.                    *)
(***************************************************************************)
\* a camelCase reading that trips all four risk indicators
RiskyCamelCaseVitals ==
    [heartRate |-> Num(130), temperature |-> Num(385),
     bloodPressureSystolic |-> Num(170), bloodPressureDiastolic |-> Num(100),
     oxygenSaturation |-> Num(92)]

ForecastReadings ==
    { Dict(CamelCaseVitals),
      Dict(RiskyCamelCaseVitals),
      Dict([CamelCaseVitals EXCEPT !.temperature = NonNumeric]),
      NotADict }

ForecastPrefillLengths == {0, 4, 9}

\* the lengths of the lists passed to the monitor directly
ListLengths == {0, 4, 5, 6, 9, 10, 11}

\* [first] * (n // 2) + [second] * (n - n // 2)
ListOf(first, second, n) ==
    [i \in 1..n |-> IF i <= n \div 2 THEN first ELSE second]

\* two readings between which every tracked vital differs by more than 5%
LowCamelCaseVitals ==
    [heartRate |-> Num(60), temperature |-> Num(360),
     bloodPressureSystolic |-> Num(100), oxygenSaturation |-> Num(90)]
HighCamelCaseVitals ==
    [heartRate |-> Num(130), temperature |-> Num(385),
     bloodPressureSystolic |-> Num(170), oxygenSaturation |-> Num(98)]

PatientDataLists ==
    { ListOf(first.items, second.items, n) :
        first \in ForecastReadings \ {NotADict},
        second \in ForecastReadings \ {NotADict},
        n \in ListLengths }
    \cup { ListOf(LowCamelCaseVitals, HighCamelCaseVitals, n) : n \in ListLengths }
    \cup { ListOf(HighCamelCaseVitals, LowCamelCaseVitals, n) : n \in ListLengths }

SummaryCall(op, patient_id, patient_data) ==
    [op |-> op, device_id |-> patient_id, patient_data |-> patient_data]

\* POST /analyze/health-data
ForecastAnalyze ==
    /\ now <= MaxCalls
    /\ \E patient_id \in Devices, health_data \in ForecastReadings :
         \E o \in OutcomeChoices(health_data, SpecAnomalyOutcomes,
                                 SpecClassifierOutcomes, SpecRiskOutcomes) :
             ServiceAnalyzeStep(patient_id, health_data, o[1], o[2], o[3])

\* what a request that only reads the stores leaves alone
ReadOnlyRequest ==
    /\ now' = now + 1
    /\ UNCHANGED <<health_history, recent_health_data, emergency_alerts,
                   enable_ai_models, models, appended, received, skipped, threads>>

\* POST /predict/risk; "" stands for a body without patientId
PredictRiskRequest ==
    /\ now <= MaxCalls
    /\ \E patient_id \in Devices \cup {""} :
         LET out == ServicePredictRisk(recent_health_data, patient_id, now)
         IN  /\ call' = SummaryCall("predict_risk", patient_id,
                                    Get(recent_health_data, patient_id, <<>>))
             /\ response' = out.status
             /\ result' = Return(out.body)
    /\ ReadOnlyRequest

\* GET /patient/<patient_id>/trends
HealthTrendsRequest ==
    /\ now <= MaxCalls
    /\ \E patient_id \in Devices :
         LET out == ServiceGetHealthTrends(recent_health_data, patient_id, now)
         IN  /\ call' = SummaryCall("get_health_trends", patient_id,
                                    Get(recent_health_data, patient_id, <<>>))
             /\ response' = out.status
             /\ result' = Return(out.body)
    /\ ReadOnlyRequest

\* monitor.predict_health_risks(patient_data), as test_health_monitor calls it
MonitorPredictRisks ==
    /\ call.op = "none"
    /\ \E patient_data \in PatientDataLists :
         /\ call' = SummaryCall("predict_health_risks", "", patient_data)
         /\ result' = PredictHealthRisks(patient_data)
    /\ response' = 0
    /\ ReadOnlyRequest

\* monitor.analyze_health_trends(patient_data)
MonitorAnalyzeTrends ==
    /\ call.op = "none"
    /\ \E patient_data \in PatientDataLists :
         /\ call' = SummaryCall("analyze_health_trends", "", patient_data)
         /\ result' = AnalyzeHealthTrends(patient_data, now)
    /\ response' = 0
    /\ ReadOnlyRequest

\* the windows asked for, in clock units
SummaryWindows == {0, 2, 7}

\* monitor.get_patient_health_summary(device_id, days); dev-9 never reported
MonitorGetSummary ==
    /\ now <= MaxCalls
    /\ \E device_id \in Devices \cup {"dev-9"}, days \in SummaryWindows :
         LET done == GetPatientHealthSummary(health_history, device_id, days, now)
         IN  /\ call' = [op |-> "get_patient_health_summary", device_id |-> device_id,
                         patient_data |-> Get(health_history, device_id, <<>>),
                         days |-> days]
             /\ health_history' = done.history
             /\ result' = done.outcome
    /\ response' = 0
    /\ now' = now + 1
    /\ UNCHANGED <<recent_health_data, emergency_alerts, enable_ai_models, models,
                   appended, received, skipped, threads>>

InitForecast == InitWith(DisabledMonitor, ForecastPrefillLengths)

NextForecast ==
    \/ ForecastAnalyze
    \/ PredictRiskRequest
    \/ HealthTrendsRequest
    \/ MonitorPredictRisks
    \/ MonitorAnalyzeTrends
    \/ MonitorGetSummary

SpecForecast == InitForecast /\ [][NextForecast]_vars

\* every value of every entry but its timestamp is a number
NumericEntries(patient_data) ==
    \A i \in 1..Len(patient_data) :
        \A key \in DOMAIN patient_data[i] \ {"timestamp"} : patient_data[i][key].num

RiskLevels == {"high", "medium", "low", "minimal"}

\* C14: a risk forecast for a device with fewer than 5 stored readings returns
\* an insufficient-data result; with 5 or more (numeric) readings stored, so as
\* soon as the 5th is appended, it succeeds and returns a risk level.
C14_ForecastNeedsFive ==
    (call.op = "predict_risk" /\ call.device_id \in Devices)
    => LET stored == Entries(recent_health_data, call.device_id)
       IN  /\ Len(stored) < 5 =>
                 /\ response = 400
                 /\ result.value.error = "Insufficient data for risk prediction"
                 /\ "riskPrediction" \notin DOMAIN result.value
           /\ (Len(stored) >= 5 /\ NumericEntries(stored)) =>
                 /\ response = 200
                 /\ result.value.riskPrediction.overall_risk \in RiskLevels
                 /\ result.value.dataPoints = Len(stored)

\* the forecast right after the append that made the device's 5th reading
C14_Witness ==
    /\ call.op = "predict_risk" /\ call.device_id \in Devices
    /\ Len(Entries(recent_health_data, call.device_id)) = 5
    /\ recent_health_data[call.device_id][5].timestamp.v = now - 2
    /\ recent_health_data[call.device_id][4].timestamp.v = 0
    /\ response = 200
    /\ result.value.riskPrediction.overall_risk = "high"
    /\ result.value.riskPrediction.risk_score = 100

\* C15: predict_health_risks with fewer than 5 points and analyze_health_trends
\* with fewer than 10 return an insufficient-data value and never raise; with
\* at least 5 (10) numeric points they return a risk (trend) result.
C15_InsufficientDataIsAValue ==
    /\ call.op = "predict_health_risks" =>
          /\ ~result.raised
          /\ Len(call.patient_data) < 5 =>
                /\ result.value.overall_risk = "insufficient_data"
                /\ result.value.risk_score = 0
                /\ "message" \in DOMAIN result.value
          /\ (Len(call.patient_data) >= 5 /\ NumericEntries(call.patient_data)) =>
                /\ result.value.overall_risk \in RiskLevels
                /\ result.value.data_points_analyzed = Len(call.patient_data)
    /\ call.op = "analyze_health_trends" =>
          /\ ~result.raised
          /\ Len(call.patient_data) < 10 =>
                /\ result.value.status = "insufficient_data"
                /\ "message" \in DOMAIN result.value
          /\ (Len(call.patient_data) >= 10 /\ NumericEntries(call.patient_data)) =>
                /\ "status" \notin DOMAIN result.value
                /\ result.value.overall_trajectory \in {"improving", "declining", "stable"}
                /\ result.value.analysis_period = Len(call.patient_data)

\* exactly five points, the first two of the test's reading and three risky ones
C15_Witness ==
    /\ call.op = "predict_health_risks"
    /\ Len(call.patient_data) = 5
    /\ call.patient_data[1] = CamelCaseVitals
    /\ call.patient_data[5] = RiskyCamelCaseVitals
    /\ ~result.raised
    /\ result.value.overall_risk = "high"
    /\ result.value.data_points_analyzed = 5

(***************************************************************************)
(* RiskPredictor._calculate_time_predictions over every base score from    *)
(* 0.00 to 1.00, the range predict_risk clamps to.                         *)
(***************************************************************************)
BaseRisks == 0..100

CalculateTimePredictions ==
    /\ call.op = "none"
    /\ \E base_risk \in BaseRisks :
         /\ call' = [op |-> "calculate_time_predictions", base_risk |-> base_risk]
         /\ result' = Return(calculate_time_predictions(base_risk))
    /\ UNCHANGED <<health_history, recent_health_data, emergency_alerts,
                   enable_ai_models, models, now, appended, received, response,
                   skipped, threads>>

NextWindows == CalculateTimePredictions

SpecWindows == InitAlerts /\ [][NextWindows]_vars

\* C16: for a base score in [0, 0.95) the windowed scores do not decrease
\* with the horizon: score(1h) <= score(6h) <= score(12h) <= score(24h).
C16_WindowsMonotonic ==
    (call.op = "calculate_time_predictions" /\ call.base_risk < RiskCeiling)
    => /\ DOMAIN result.value = {"1h", "6h", "12h", "24h"}
       /\ result.value["1h"].risk_score <= result.value["6h"].risk_score
       /\ result.value["6h"].risk_score <= result.value["12h"].risk_score
       /\ result.value["12h"].risk_score <= result.value["24h"].risk_score
       /\ call.base_risk * WindowUnit <= result.value["1h"].risk_score

\* base 0.90: 0.90375 at 1h, 0.9225 at 6h, 0.945 at 12h and the ceiling at 24h
C16_Witness ==
    /\ call.op = "calculate_time_predictions" /\ call.base_risk = 90
    /\ result.value["1h"].risk_score = 21690
    /\ result.value["6h"].risk_score = 22140
    /\ result.value["12h"].risk_score = 22680
    /\ result.value["24h"].risk_score = RiskCeiling * WindowUnit

(***************************************************************************)
(* _analyze_trends over series of 0 to 9 values that stay flat, rise or    *)
(* fall by a step per reading.                                             *)
(***************************************************************************)
MaxSeries == 9

\* n values starting at 70 and changing by `step` per reading
Series(n, step) == [i \in 1..n |-> Num(70 + step * (i - 1))]

SeriesChoices == { Series(n, step) : n \in 0..MaxSeries, step \in {-5, 0, 1, 5} }

AnalyzeTrendsCall ==
    /\ call.op = "none"
    /\ \E hr \in SeriesChoices, spo2 \in SeriesChoices :
         LET vitals == [heart_rate |-> hr, spo2 |-> spo2]
         IN  /\ call' = [op |-> "analyze_trends", vitals |-> vitals]
             /\ result' = Return(AnalyzeTrends(vitals))
    /\ UNCHANGED <<health_history, recent_health_data, emergency_alerts,
                   enable_ai_models, models, now, appended, received, response,
                   skipped, threads>>

NextTrends == AnalyzeTrendsCall

SpecTrends == InitAlerts /\ [][NextTrends]_vars

\* C17: _analyze_trends reports insufficient_data for every vital with fewer
\* than 5 values and one of increasing, decreasing, stable for every vital
\* with 5 or more.
C17_TrendNeedsFive ==
    call.op = "analyze_trends" =>
        /\ DOMAIN result.value = DOMAIN call.vitals
        /\ \A vital \in DOMAIN call.vitals :
              IF Len(call.vitals[vital]) < 5
              THEN result.value[vital] = "insufficient_data"
              ELSE result.value[vital] \in {"increasing", "decreasing", "stable"}

\* four rising heart-rate values are not enough; five falling spo2 values
\* (70 against an average of 52.5 at the end) are a decrease
C17_Witness ==
    /\ call.op = "analyze_trends"
    /\ call.vitals.heart_rate = Series(4, 5)
    /\ call.vitals.spo2 = Series(5, -5)
    /\ result.value.heart_rate = "insufficient_data"
    /\ result.value.spo2 = "decreasing"

(***************************************************************************)
(* Analyses of one monitor between which retrain_models may run.           *)
(***************************************************************************)
MaxRetrainCalls == 3

\* 50 usable records, one record short, and 50 records with the service's keys
TrainingSets ==
    { [i \in 1..MinTrainingData |-> NormalVitals],
      [i \in 1..(MinTrainingData - 1) |-> NormalVitals],
      [i \in 1..MinTrainingData |-> CamelCaseVitals] }

\* the scorers whose availability test the call reaches and finds false
FoundUnavailable(health_data, a_out, e_out) ==
    {sc \in Scorers :
        /\ ReachesScorers(health_data)
        /\ ~ScorerAvailable(enable_ai_models, models, sc)
        /\ (sc = "classifier" => ~Failed(a_out))
        /\ (sc = "risk" => ~Failed(a_out) /\ ~Failed(e_out))}

RetrainAnalyze ==
    /\ now <= MaxRetrainCalls
    /\ \E o \in OutcomeChoices(Dict(NormalVitals), SpecAnomalyOutcomes,
                               SpecClassifierOutcomes, SpecRiskOutcomes) :
         /\ MonitorCall("monitor", "dev-1", Dict(NormalVitals), o[1], o[2], o[3])
         /\ skipped' = skipped \cup FoundUnavailable(Dict(NormalVitals), o[1], o[2])
    /\ response' = 0
    /\ UNCHANGED <<recent_health_data, emergency_alerts, received, threads>>

\* monitor.retrain_models(training_data)
Retrain ==
    /\ now <= MaxRetrainCalls
    /\ \E training_data \in TrainingSets, fit_ok \in [Scorers -> BOOLEAN] :
         LET done == RetrainModels(models, training_data, fit_ok, now)
         IN  /\ models' = done.models
             /\ result' = Return(done.value)
             /\ call' = [NoCall EXCEPT !.op = "retrain_models"]
    /\ now' = now + 1
    /\ response' = 0
    /\ UNCHANGED <<health_history, recent_health_data, emergency_alerts,
                   enable_ai_models, appended, received, skipped, threads>>

InitRetrain == InitWith(AllMonitorConfigs, {0})

NextRetrain == RetrainAnalyze \/ Retrain

SpecRetrain == InitRetrain /\ [][NextRetrain]_vars

\* the state's answer to `self.enable_ai_models and self.x and self.x.is_trained`
TrainedNow(scorer) == enable_ai_models /\ models[scorer] = "trained"

\* the call came to the scorer's availability test
TestReached(scorer) ==
    /\ scorer = "classifier" => ~Failed(call.anomaly)
    /\ scorer = "risk" => ~Failed(call.anomaly) /\ ~Failed(call.classifier)

SignalKey(scorer) ==
    CASE scorer = "anomaly" -> "anomaly_detection"
      [] scorer = "classifier" -> "emergency_classification"
      [] scorer = "risk" -> "risk_prediction"

\* C18: every analyze_health_data call tests the scorers' availability anew:
\* a scorer is invoked, and its signal included, exactly when it is enabled
\* and trained at that call, also when an earlier call found it unavailable
\* and retrain_models trained it since.
C18_AvailabilityRechecked ==
    (call.op = "monitor" /\ WellFormed)
    => \A scorer \in Scorers :
          /\ TestReached(scorer) => (call[scorer].called <=> TrainedNow(scorer))
          /\ AllReturned => (SignalKey(scorer) \in DOMAIN Analysis <=> TrainedNow(scorer))

\* all three scorers were found unavailable by an earlier call and are invoked
\* by this one
C18_Witness ==
    /\ call.op = "monitor" /\ WellFormed /\ AllReturned
    /\ skipped = Scorers
    /\ \A scorer \in Scorers :
          call[scorer].called /\ SignalKey(scorer) \in DOMAIN Analysis

(***************************************************************************)
(* Requests served by concurrent threads (app.run(threaded=True)).  Each   *)
(* thread runs the store statements of the route and then those of         *)
(* _store_health_data; the interpreter may switch threads between any two  *)
(* of the steps below.  A list is an object: a thread that has loaded      *)
(* store[key] and is about to call append holds a reference, which no      *)
(* longer is the stored list once another thread has assigned store[key].  *)
(***************************************************************************)
Threads == {"t1", "t2"}

\* what each thread posts
ThreadReading ==
    [t \in Threads |->
        [NormalVitals EXCEPT !.heart_rate = Num(IF t = "t1" THEN 71 ELSE 72)]]

\* SetItem that binds every key to the value
SetItemAll(dict, key, value) == [k \in DOMAIN dict \cup {key} |-> value]

\* dict[key] = value
SetItem(dict, key, value) ==
    [k \in DOMAIN dict \cup {key} |-> IF k = key THEN value ELSE dict[k]]

\* The steps of one store sequence.  _store_health_data builds its entry and
\* then evaluates self.health_history[device_id].append(entry); the route
\* evaluates recent_health_data[patient_id].append first and builds the
\* entry as the argument of the call.
StoreSteps(phase) ==
    IF phase = "service"
    THEN <<"test", "init", "load", "build", "append", "len", "slice", "assign">>
    ELSE <<"test", "init", "build", "load", "append", "len", "slice", "assign">>

\* the step that follows `step` in the sequence
StepAfter(phase, step) ==
    LET steps == StoreSteps(phase)
    IN  steps[1 + CHOOSE i \in 1..(Len(steps) - 1) : steps[i] = step]

Pc(phase, step) == [phase |-> phase, step |-> step]
Done == Pc("done", "done")

\* where a thread goes when a store sequence is over
AfterStore(phase) == IF phase = "service" THEN Pc("monitor", "test") ELSE Done

\* The other threads' references to store[key] of `phase` stop being the
\* stored list; a thread reading health_history[key] keeps the list it loaded.
Orphaned(t, phase, key) ==
    [u \in DOMAIN threads |->
        IF u # t /\ threads[u].device = key /\ threads[u].pc.phase = phase
        THEN [threads[u] EXCEPT !.current = FALSE]
        ELSE IF /\ u # t /\ threads[u].device = key /\ phase = "monitor"
                /\ threads[u].pc.phase = "read" /\ threads[u].current
        THEN [threads[u] EXCEPT !.current = FALSE,
                                !.sliced = Get(health_history, key, <<>>)]
        ELSE threads[u]]

\* One step of thread t in a store sequence over `store` (recent_health_data
\* for the route, health_history for the monitor): the store, the log of
\* appends and the threads after it.
StoreStep(t, phase, store, log) ==
    LET me == threads[t]
        key == me.device
        step == me.pc.step
        Goto(ths, next) == [ths EXCEPT ![t].pc = next]
    IN  CASE step = "test" ->
               [store |-> store, log |-> log, ticks |-> 0,
                threads |-> Goto(threads, Pc(phase, IF key \notin DOMAIN store
                                                    THEN "init"
                                                    ELSE StepAfter(phase, "init")))]
          [] step = "init" ->
               [store |-> SetItem(store, key, <<>>), log |-> log, ticks |-> 0,
                threads |-> Goto(Orphaned(t, phase, key),
                                 Pc(phase, StepAfter(phase, "init")))]
          [] step = "build" ->
               [store |-> store, log |-> log, ticks |-> 1,
                threads |-> [Goto(threads, Pc(phase, StepAfter(phase, "build")))
                                EXCEPT ![t].entry =
                                IF phase = "service"
                                THEN ServiceEntry(me.reading, now)
                                ELSE TimestampedData(me.reading, now)]]
          [] step = "load" ->
               [store |-> store, log |-> log, ticks |-> 0,
                threads |-> [Goto(threads, Pc(phase, StepAfter(phase, "load")))
                                EXCEPT ![t].current = TRUE]]
          [] step = "append" ->
               [store |-> IF me.current
                          THEN [store EXCEPT ![key] = Append(@, me.entry)]
                          ELSE store,
                log |-> AppendedAfter(log, key, me.entry), ticks |-> 0,
                threads |-> Goto(threads, Pc(phase, "len"))]
          [] step = "len" ->
               [store |-> store, log |-> log, ticks |-> 0,
                threads |-> Goto(threads, IF Len(store[key]) > HistoryCap
                                          THEN Pc(phase, "slice")
                                          ELSE AfterStore(phase))]
          [] step = "slice" ->
               [store |-> store, log |-> log, ticks |-> 0,
                threads |-> [Goto(threads, Pc(phase, "assign")) EXCEPT ![t].sliced =
                                LastN(store[key], HistoryCap)]]
          [] step = "assign" ->
               [store |-> SetItem(store, key, me.sliced), log |-> log, ticks |-> 0,
                threads |-> Goto(Orphaned(t, phase, key), AfterStore(phase))]

\* a step of the route's lines 76-87
ServiceStoreStep(t) ==
    /\ threads[t].pc.phase = "service"
    /\ LET done == StoreStep(t, "service", recent_health_data, received)
       IN  /\ recent_health_data' = done.store
           /\ received' = done.log
           /\ threads' = done.threads
           /\ now' = now + done.ticks
    /\ UNCHANGED <<health_history, appended, emergency_alerts, enable_ai_models,
                   models, call, result, response, skipped>>

\* a step of HealthMonitor._store_health_data
MonitorStoreStep(t) ==
    /\ threads[t].pc.phase = "monitor"
    /\ LET done == StoreStep(t, "monitor", health_history, appended)
       IN  /\ health_history' = done.store
           /\ appended' = done.log
           /\ threads' = done.threads
           /\ now' = now + done.ticks
    /\ UNCHANGED <<recent_health_data, received, emergency_alerts, enable_ai_models,
                   models, call, result, response, skipped>>

ThreadStep == \E t \in Threads : ServiceStoreStep(t) \/ MonitorStoreStep(t)

\* two requests have arrived, the first for dev-1; the stores are empty or full
InitThreads ==
    /\ InitState(DisabledMonitor, {0, HistoryCap})
    /\ \E device \in Devices :
         threads = [t \in Threads |->
                       [pc |-> Pc("service", "test"),
                        device |-> IF t = "t1" THEN "dev-1" ELSE device,
                        reading |-> ThreadReading[t],
                        entry |-> <<>>, current |-> FALSE, sliced |-> <<>>]]

NextThreads == ThreadStep

SpecThreads == InitThreads /\ [][NextThreads]_vars

AllDone == \A t \in Threads : threads[t].pc = Done

\* every entry of `log` is in `stored` or is one of the oldest beyond the cap
NothingLost(stored, log) ==
    /\ Len(stored) <= HistoryCap
    /\ \A i \in 1..Len(log) : InList(log[i], stored) \/ i <= Len(log) - HistoryCap

\* C19: when concurrent appends for one device interleave no update is lost:
\* once all have completed, every appended reading is in the device's history
\* or was evicted as one of the oldest beyond the cap of 100, and the length is
\* at most 100.
C19_NoLostUpdate ==
    AllDone =>
        /\ \A d \in DOMAIN appended :
              NothingLost(Entries(health_history, d), appended[d])
        /\ \A d \in DOMAIN received :
              NothingLost(Entries(recent_health_data, d), received[d])

\* a thread's step changes no device's list but its own
OthersUntouched(t) ==
    \A d \in (DOMAIN health_history \cup DOMAIN recent_health_data
              \cup DOMAIN health_history' \cup DOMAIN recent_health_data')
             \ {threads[t].device} :
        /\ d \in DOMAIN health_history' <=> d \in DOMAIN health_history
        /\ d \in DOMAIN recent_health_data' <=> d \in DOMAIN recent_health_data
        /\ Entries(health_history', d) = Entries(health_history, d)
        /\ Entries(recent_health_data', d) = Entries(recent_health_data, d)

\* C20: an append for one device, run alone or interleaved with appends for
\* other devices, leaves every other device's history unchanged.
C20_OtherDevicesUnchanged ==
    [][\A t \in Threads : threads'[t].pc # threads[t].pc => OthersUntouched(t)]_vars

\* two requests for different devices overlapped (each built its monitor
\* entry after the other had built its service entry) and both are stored
C20_Witness ==
    /\ AllDone
    /\ threads["t1"].device = "dev-1" /\ threads["t2"].device = "dev-2"
    /\ Len(health_history["dev-1"]) = HistoryCap
    /\ health_history["dev-1"][HistoryCap] = threads["t1"].entry
    /\ Len(health_history["dev-2"]) = 1
    /\ health_history["dev-2"][1] = threads["t2"].entry
    /\ threads["t1"].entry.timestamp.v > recent_health_data["dev-2"][1].timestamp.v
    /\ threads["t2"].entry.timestamp.v > recent_health_data["dev-1"][HistoryCap].timestamp.v

QueryOps ==
    {"get_patient_health_summary", "predict_health_risks", "analyze_health_trends",
     "predict_risk", "get_health_trends"}

\* the step is a query operation
QueryStep == call' # call /\ call'.op \in QueryOps

\* C21: get_patient_health_summary, predict_health_risks and
\* analyze_health_trends (called directly or through their routes) leave the
\* stored histories of all devices unchanged: same devices, same entries, same
\* order.
C21_QueriesLeaveHistories ==
    [][QueryStep =>
          /\ health_history' = health_history
          /\ recent_health_data' = recent_health_data]_vars

\* a summary over a window that holds some but not all of a device's stored
\* readings has been returned
C21_Witness ==
    /\ call.op = "get_patient_health_summary"
    /\ ~result.raised
    /\ "total_readings" \in DOMAIN result.value
    /\ result.value.total_readings > 0
    /\ result.value.total_readings < Len(health_history[call.device_id])
    /\ call.patient_data = health_history[call.device_id]

(***************************************************************************)
(* The verdict over scorer results of any shape: _combine_analysis_results *)
(* and _determine_overall_status read the result dicts with .get and       *)
(* defaults, whatever object produced them.                                *)
(***************************************************************************)
VerdictReadings == {NormalVitals, ScenarioReading}

\* None, and result dicts with expected, unexpected and missing labels
LooseAnomalyResults ==
    {None}
    \cup { [is_anomaly |-> flag, risk_level |-> label, confidence |-> 80] :
             flag \in BOOLEAN, label \in {"high", "critical", "low", "severe"} }
    \cup { [is_anomaly |-> TRUE] }

LooseClassifierResults ==
    {None}
    \cup { [predicted_emergency |-> "cardiac_arrest", confidence |-> c, severity |-> label] :
             c \in {ClassificationMinConfidence, 90},
             label \in {"critical", "high", "medium", "low", "extreme"} }
    \cup { [predicted_emergency |-> "cardiac_arrest", confidence |-> 90],
           [predicted_emergency |-> "normal", confidence |-> 90, severity |-> "low"] }

LooseRiskResults ==
    {None}
    \cup { [overall_risk_score |-> score, risk_level |-> label, confidence |-> 75] :
             score \in {RiskMinScore, 70, 85},
             label \in {"critical", "high", "minimal", "moderate"} }
    \cup { [overall_risk_score |-> 70, confidence |-> 75] }

\* _combine_analysis_results over the alerts of a reading and three results
CombineResults ==
    /\ call.op = "none"
    /\ \E items \in VerdictReadings, anomaly_result \in LooseAnomalyResults,
          emergency_result \in LooseClassifierResults, risk_result \in LooseRiskResults :
         /\ call' = [op |-> "combine_analysis_results", device_id |-> "",
                     health_data |-> Dict(items), anomaly |-> anomaly_result,
                     classifier |-> emergency_result, risk |-> risk_result]
         /\ result' = Return(CombineAnalysisResults(items, CheckImmediateAlerts(items).value,
                                                    anomaly_result, emergency_result,
                                                    risk_result))
    /\ UNCHANGED <<health_history, recent_health_data, emergency_alerts, enable_ai_models,
                   models, now, appended, received, response, skipped, threads>>

\* _create_error_response for an analysis that raised
ErrorResponse ==
    /\ call.op = "none"
    /\ \E device_id \in Devices :
         /\ call' = [NoCall EXCEPT !.op = "create_error_response",
                                   !.device_id = device_id]
         /\ result' = Return(CreateErrorResponse(device_id, "argument is not a mapping",
                                                 enable_ai_models, now))
    /\ UNCHANGED <<health_history, recent_health_data, emergency_alerts, enable_ai_models,
                   models, now, appended, received, response, skipped, threads>>

NextVerdict == CombineResults \/ ErrorResponse

SpecVerdict == InitAlerts /\ [][NextVerdict]_vars

VerdictReturned == call.op \in {"combine_analysis_results", "create_error_response"}

VerdictLevels == {"normal", "caution", "warning", "emergency", "error"}
VerdictSeverities == {"normal", "low", "medium", "high", "critical", "unknown"}

\* C22: every verdict has level in {normal, caution, warning, emergency,
\* error} and severity in {normal, low, medium, high, critical, unknown}, for
\* every combination of threshold alerts and scorer results, including results
\* with missing or unexpected severity / risk_level labels.
C22_VerdictVocabulary ==
    VerdictReturned =>
        /\ result.value.overall_status.level \in VerdictLevels
        /\ result.value.overall_status.severity \in VerdictSeverities

(***************************************************************************)
(* A request thread appending a reading for dev-1 while another thread     *)
(* runs get_patient_health_summary for dev-1.  The reader tests the key,   *)
(* loads the device's list and iterates over the list it loaded.           *)
(***************************************************************************)
Writer == "t1"
Reader == "reader"

\* a window that holds every stored reading
WholeHistory == 2 * HistoryCap

\* one step of the reader
ReaderStep ==
    LET me == threads[Reader]
        step == me.pc.step
        loaded == IF me.current THEN health_history[me.device] ELSE me.sliced
    IN  /\ me.pc.phase = "read"
        /\ CASE step = "test" ->
                  IF me.device \notin DOMAIN health_history
                  THEN /\ result' = GetPatientHealthSummary(health_history, me.device,
                                                            WholeHistory, now).outcome
                       /\ threads' = [threads EXCEPT ![Reader].pc = Done]
                  ELSE /\ threads' = [threads EXCEPT ![Reader].pc = Pc("read", "load")]
                       /\ UNCHANGED result
             [] step = "load" ->
                  /\ threads' = [threads EXCEPT ![Reader].pc = Pc("read", "iterate"),
                                                ![Reader].current = TRUE]
                  /\ UNCHANGED result
             [] step = "iterate" ->
                  /\ result' = GetPatientHealthSummary((me.device :> loaded), me.device,
                                                       WholeHistory, now).outcome
                  /\ threads' = [threads EXCEPT ![Reader].pc = Done,
                                                ![Reader].current = FALSE]
        /\ UNCHANGED <<health_history, recent_health_data, emergency_alerts,
                       enable_ai_models, models, now, appended, received, call,
                       response, skipped>>

WriterStep == ServiceStoreStep(Writer) \/ MonitorStoreStep(Writer)

\* the stores are empty or full; one append and one summary for dev-1 arrive
InitReader ==
    /\ InitState(DisabledMonitor, {0, HistoryCap})
    /\ threads =
         (Writer :> [pc |-> Pc("service", "test"), device |-> "dev-1",
                     reading |-> ThreadReading[Writer],
                     entry |-> <<>>, current |-> FALSE, sliced |-> <<>>])
         @@ (Reader :> [pc |-> Pc("read", "test"), device |-> "dev-1",
                        reading |-> <<>>,
                        entry |-> <<>>, current |-> FALSE, sliced |-> <<>>])

NextReader == WriterStep \/ ReaderStep

SpecReader == InitReader /\ [][NextReader]_vars

\* what a summary reports of the list it read
Observed(outcome) ==
    IF "error" \in DOMAIN outcome.value
    THEN <<outcome.value.error>>
    ELSE <<outcome.value.total_readings, outcome.value.first_reading,
           outcome.value.last_reading>>

\* what a summary of dev-1 reports while the store holds `stored`
Snapshot(stored) ==
    Observed(GetPatientHealthSummary(
                 IF Len(stored) = 0 THEN <<>> ELSE ("dev-1" :> stored),
                 "dev-1", WholeHistory, now).outcome)

ReadDone == threads[Reader].pc = Done /\ threads[Writer].pc = Done

\* C23: a read of a device's history that runs concurrently with an append
\* for the same device observes the history as it was before the append or as
\* it is after append and eviction completed, never an intermediate state such
\* as more than 100 entries.
C23_ReadSeesSnapshot ==
    ReadDone =>
        \/ Observed(result) = Snapshot(LastN(FirstN(appended["dev-1"],
                                                    Len(appended["dev-1"]) - 1),
                                             HistoryCap))
        \/ Observed(result) = Snapshot(LastN(appended["dev-1"], HistoryCap))

\* the score bands applied to a windowed score
BandOf(windowed_risk) ==
    CASE windowed_risk >= 80 * WindowUnit -> "critical"
      [] windowed_risk >= 60 * WindowUnit /\ windowed_risk < 80 * WindowUnit -> "high"
      [] windowed_risk >= 40 * WindowUnit /\ windowed_risk < 60 * WindowUnit -> "medium"
      [] windowed_risk >= 20 * WindowUnit /\ windowed_risk < 40 * WindowUnit -> "low"
      [] windowed_risk < 20 * WindowUnit -> "minimal"

\* C24: for every base score in [0, 1] and every horizon in {1h, 6h, 12h, 24h}
\* the windowed score is min(0.95, base * (1 + 0.1 * hours / 24)), never above
\* 0.95, and its risk_level is the band of the windowed score (>= 0.8 critical,
\* >= 0.6 high, >= 0.4 medium, >= 0.2 low, else minimal).
C24_WindowedScore ==
    call.op = "calculate_time_predictions" =>
        \A hours \in {1, 6, 12, 24} :
            LET prediction == result.value[Str(hours) \o "h"]
                scaled == call.base_risk * WindowUnit + call.base_risk * hours
            IN  /\ prediction.risk_score =
                      IF scaled > RiskCeiling * WindowUnit
                      THEN RiskCeiling * WindowUnit ELSE scaled
                /\ prediction.risk_score <= RiskCeiling * WindowUnit
                /\ prediction.risk_level = BandOf(prediction.risk_score)

\* base 0.75: 0.753125 at 1h is high, 0.825 at 24h is critical
C24_Witness ==
    /\ call.op = "calculate_time_predictions" /\ call.base_risk = 75
    /\ result.value["1h"].risk_score = 18075 /\ result.value["1h"].risk_level = "high"
    /\ result.value["24h"].risk_score = 19800
    /\ result.value["24h"].risk_level = "critical"

\* the direction from the means of the first and the last n // 4 values
EqualQuartersDirection(values) ==
    LET quarter == Len(values) \div 4
        first == SumValues(FirstN(values, quarter))
        last == SumValues(LastN(values, quarter))
    IN  IF last * 100 > first * 105 THEN "increasing"
        ELSE IF last * 100 < first * 95 THEN "decreasing"
        ELSE "stable"

\* C25: for a vital with n >= 5 values _analyze_trends compares the mean of
\* the first n // 4 values with the mean of the last n // 4 values: increasing
\* when the last mean is more than 5% above the first, decreasing when more
\* than 5% below, stable otherwise.
C25_EqualQuarters ==
    call.op = "analyze_trends" =>
        \A vital \in DOMAIN call.vitals :
            Len(call.vitals[vital]) >= 5 =>
                result.value[vital] = EqualQuartersDirection(call.vitals[vital])

\* C26: whenever a request to /analyze/health-data produces an analysis whose
\* verdict is an emergency (requires_emergency_response true), an alert for
\* that patient is appended to emergency_alerts, where /emergencies/active
\* finds it.
C26_EmergencyRecorded ==
    (call.op = "service" /\ response = 200 /\ Analysis.requires_emergency_response)
    => /\ Len(emergency_alerts) > 0
       /\ emergency_alerts[Len(emergency_alerts)].patientId = call.device_id
       /\ emergency_alerts[Len(emergency_alerts)].timestamp = now - 1

\* C27: in every result of analyze_health_data requires_emergency_response is
\* true exactly when the verdict's severity is critical or high; so every
\* level=emergency verdict has it true and every level=normal or level=error
\* verdict has it false.
C27_EmergencyResponseBySeverity ==
    (Called /\ ~result.raised) =>
        /\ Analysis.requires_emergency_response <=> Status.severity \in {"critical", "high"}
        /\ Status.level = "emergency" => Analysis.requires_emergency_response
        /\ Status.level \in {"normal", "error"} => ~Analysis.requires_emergency_response

\* a warning of high severity, below the emergency level, asks for a response
C27_Witness ==
    /\ Called /\ ~result.raised
    /\ Status.level = "warning" /\ Status.severity = "high"
    /\ Analysis.requires_emergency_response

(***************************************************************************)
(* One analysis over stores that are empty, one below the cap or full,     *)
(* with readings and scorer outcomes that make the call fail.              *)
(***************************************************************************)
ErrorReadings ==
    { Dict(NormalVitals),
      Dict([NormalVitals EXCEPT !.spo2 = NonNumeric]),
      NotADict }

ErrorPrefillLengths == {0, HistoryCap - 1, HistoryCap}

ErrorAnalyze ==
    /\ call.op = "none"
    /\ \E device_id \in Devices, health_data \in ErrorReadings :
         \E o \in OutcomeChoices(health_data, SpecAnomalyOutcomes,
                                 FusionClassifierOutcomes, FusionRiskOutcomes) :
             MonitorAnalyzeStep(device_id, health_data, o[1], o[2], o[3])

InitErrors == InitWith(SpecMonitorConfigs, ErrorPrefillLengths)

NextErrors == ErrorAnalyze

SpecErrors == InitErrors /\ [][NextErrors]_vars

\* the step is a call on a mapping that returns the error verdict
FailedAnalysisStep ==
    /\ call'.op = "monitor" /\ call.op = "none"
    /\ call'.health_data.is_dict
    /\ result'.value.overall_status.level = "error"

\* C28: analyze_health_data appends the reading before any evaluation, so a
\* call that ends in an error verdict because the threshold check or a scorer
\* raised leaves the device's history one entry longer, or at the cap with the
\* oldest entry evicted; the reading is not rolled back.
C28_ErrorKeepsReading ==
    [][FailedAnalysisStep =>
          LET d == call'.device_id
              entry == TimestampedData(call'.health_data.items, now)
              grown == Append(Entries(health_history, d), entry)
          IN  /\ d \in DOMAIN health_history'
              /\ health_history'[d] = LastN(grown, HistoryCap)
              /\ Len(health_history'[d]) =
                    (IF Len(grown) > HistoryCap THEN HistoryCap ELSE Len(grown))]_vars

\* a scorer raised on a full history: the error verdict came back, the reading
\* is the newest entry and the oldest one is gone
C28_Witness ==
    /\ call.op = "monitor" /\ WellFormed /\ SomeScorerFailed
    /\ Status.level = "error"
    /\ Len(appended[call.device_id]) = HistoryCap + 1
    /\ Len(health_history[call.device_id]) = HistoryCap
    /\ health_history[call.device_id][HistoryCap] = TimestampedData(Items, now - 1)
    /\ health_history[call.device_id][1] = appended[call.device_id][2]

SimulationReadings ==
    FusionReadings
    \cup { Dict([NormalVitals EXCEPT !.heart_rate = Num(120)]),
           Dict([NormalVitals EXCEPT !.spo2 = Num(93)]),
           Dict([NormalVitals EXCEPT !.temperature = Num(385)]),
           Dict([NormalVitals EXCEPT !.respiratory_rate = NonNumeric]) }

\* a call of HealthMonitorSimulation.analyze_health_data
SimulationAnalyze ==
    /\ call.op = "none"
    /\ \E device_id \in Devices, health_data \in SimulationReadings :
         LET done == SimulationAnalyzeHealthData(health_history, device_id, health_data, now)
         IN  /\ health_history' = done.history
             /\ result' = done.outcome
             /\ appended' = IF health_data.is_dict
                            THEN AppendedAfter(appended, device_id,
                                               TimestampedData(health_data.items, now))
                            ELSE appended
             /\ call' = [NoCall EXCEPT !.op = "simulation", !.device_id = device_id,
                                       !.health_data = health_data]
    /\ now' = now + 1
    /\ UNCHANGED <<recent_health_data, emergency_alerts, enable_ai_models, models,
                   received, response, skipped, threads>>

\* HealthMonitorSimulation() after some earlier calls
InitSimulation == InitWith(DisabledMonitor, ForecastPrefillLengths)

NextSimulation == SimulationAnalyze

SpecSimulation == InitSimulation /\ [][NextSimulation]_vars

\* C29: HealthMonitorSimulation.analyze_health_data never propagates an
\* exception raised during threshold evaluation or result combination (such as
\* a non-numeric vital value) and returns an error verdict instead.
C29_SimulationNeverPropagates ==
    (call.op = "simulation" /\ call.health_data.is_dict) =>
        /\ ~result.raised
        /\ ~WellFormed => Status.level = "error"

\* every tracked vital is in every entry, as a number
AllTracked(patient_data) ==
    \A i \in 1..Len(patient_data) :
        \A vital \in TrendVitals :
            vital \in DOMAIN patient_data[i] /\ patient_data[i][vital].num

\* the sum of the last three values of `vital` minus the sum of its first three
RiseOf(patient_data, vital) ==
    SumValues(LastN(ValuesOf(patient_data, vital), 3))
    - SumValues(FirstN(ValuesOf(patient_data, vital), 3))

\* every tracked vital rises by more than 5% between its first and last three values
AllRising(patient_data) ==
    \A vital \in TrendVitals :
        RiseOf(patient_data, vital) * 100
            > 5 * SumValues(FirstN(ValuesOf(patient_data, vital), 3))

\* every tracked vital falls by more than 5%
AllFalling(patient_data) ==
    \A vital \in TrendVitals :
        (-RiseOf(patient_data, vital)) * 100
            > 5 * SumValues(FirstN(ValuesOf(patient_data, vital), 3))

\* C30: analyze_health_trends reports overall_trajectory = declining when more
\* per-vital trends are worsening than improving: for a history of at least 10
\* points in which every tracked vital rises by more than 5% between its first
\* three and last three values the trajectory is declining, and it is
\* improving when every vital falls by more than 5%.
C30_TrajectoryDeclines ==
    (/\ call.op = "analyze_health_trends"
     /\ Len(call.patient_data) >= 10
     /\ AllTracked(call.patient_data))
    => /\ AllRising(call.patient_data) => result.value.overall_trajectory = "declining"
       /\ AllFalling(call.patient_data) => result.value.overall_trajectory = "improving"

====
